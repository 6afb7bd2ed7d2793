---------------------------- MODULE MCCsvDriver ----------------------------
\* The csv driver for TLC: the two tables are interchangeable.
EXTENDS CsvDriver, TLC

TableSymmetry == Permutations(Tables)

=============================================================================
