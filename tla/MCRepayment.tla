----------------------------- MODULE MCRepayment -----------------------------
(* Instances of Repayment for TLC. *)
EXTENDS RepaymentProperties, TLC

CONSTANTS p1, p2, w1, w2

OnePay == {p1}
TwoPays == {p1, p2}
OneWorker == {w1}
TwoWorkers == {w1, w2}

EmiApp == <<"EMIPAY", "APP">>
EmiDebit == <<"EMIPAY", "AD">>
EmiSigndesk == <<"EMIPAY", "SD">>
PartApp == <<"PARTPAY", "APP">>
PartDebit == <<"PARTPAY", "AD">>
FullApp == <<"FULLPAY", "APP">>
FullDebit == <<"FULLPAY", "AD">>

UsualKinds == {EmiApp, EmiDebit, EmiSigndesk, PartApp, FullApp, FullDebit}
AllKinds == UsualKinds \union {PartDebit}
PolledKinds == {EmiDebit, PartApp, FullApp}
FullAndDebit == {FullApp, EmiDebit}
DebitOnly == {EmiDebit}
PartOnly == {PartApp}
AppOnly == {EmiApp}

AllJobs == {"dues", "archive"}
DuesOnly == {"dues"}
NoJobs == {}

(* Orders and handlers are interchangeable; only the safety runs use it. *)
Symmetry == Permutations(Pays) \union Permutations(Workers)
=============================================================================
