--------------------------------- MODULE Sums ---------------------------------
EXTENDS FiniteSetsExt

\* What the rows of S add up to, f giving each row's amount.
SumOver(f, S) == MapThenSumSet(LAMBDA x : f[x], S)
===============================================================================
