SPECIFICATION FairPackageSpec
CONSTANTS
  SetReads = {r1, r2}
  RowTimes = {1, 2}
INVARIANT PackageInvariant
PROPERTIES WhatWasMetStays EveryReadReturns
CHECK_DEADLOCK FALSE
