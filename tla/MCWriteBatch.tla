---------------------------- MODULE MCWriteBatch ----------------------------
EXTENDS RocksDBWriteBatch

CONSTANTS a, b

Values == {a, b}
=============================================================================
