------------------------------ MODULE MCClocks ------------------------------
EXTENDS Clocks

\* Pixel clocks of usual modes, and those at the edges of the tables.
ClocksValue == {250, 252, 650, 1130, 1485, 1650, 2000, 2250, 2415, 2700,
                3300, 3500}
WrpllValue == {600, 742, 1080, 1485, 2335, 2700, 2970, 5400}
BudgetsValue == {0, 2, 3, 4, 10}
=============================================================================
