CONSTANT Nums <- MCNums
SPECIFICATION DescSpec
INVARIANT DayNamesDefined
