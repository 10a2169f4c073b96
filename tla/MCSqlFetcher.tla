----------------------------- MODULE MCSqlFetcher ------------------------------
(* Rows and a buffer for TLC: the buffer holds three or four of the rows.    *)
EXTENDS SqlFetcher

MCSizeOf == <<1, 2, 1, 2, 1, 1>>
MCQueries == {<<0, TRUE>>, <<3, FALSE>>, <<6, TRUE>>}
=============================================================================
