----------------------------- MODULE MC_WorkBuf -----------------------------
EXTENDS WorkBuf

\* A 32-byte address space with 4-byte alignment: regions start at every
\* offset within an alignment unit, and sizes below, at and above a unit,
\* zero included, are asked for.
MCW == 5
MCAlign == 4
MCSizes == {0, 1, 4, 6, 13}
MCMaxLive == 3
====
