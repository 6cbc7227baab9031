-------------------------- MODULE MC_MemberInside --------------------------
EXTENDS MemberInside

\* An 8-byte address space: every argument takes all 8 values, so a sum
\* wraps for about half of the calls and every error path is reached.
MCW == 3
====
