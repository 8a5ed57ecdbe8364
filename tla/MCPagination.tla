---------------------------- MODULE MCPagination ----------------------------
EXTENDS Pagination

MCKeys == 1..3
MCPrefixes == {MCKeys, {1, 3}}
MCPageSizes == 0..2
=============================================================================
