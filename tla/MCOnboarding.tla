---------------------------- MODULE MCOnboarding ----------------------------
EXTENDS OnboardingProperties, TLC
Symmetry == Permutations(Workers)
=============================================================================
