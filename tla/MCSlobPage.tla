----------------------------- MODULE MCSlobPage -----------------------------
EXTENDS SlobPage
\* Exact fits, one-unit blocks (whose encoding differs), a request as large as
\* the page, and requests whose alignment leaves a head in front of them.
MCRequests == {<<1, 0>>, <<2, 0>>, <<3, 0>>, <<PAGE_UNITS, 0>>, <<1, 2>>, <<2, 4>>}
=============================================================================
