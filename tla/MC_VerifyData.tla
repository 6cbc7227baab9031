---------------------------- MODULE MC_VerifyData ----------------------------
EXTENDS VerifyData

\* A 16-byte work buffer space with 4-byte alignment; 2-byte digests of
\* 2-bit bytes; the software RSA path needs 4 bytes of scratch, so of the
\* offered work buffers one is empty, one holds only the digest, one holds
\* the digest and the scratch, and one has room to spare.
MCW == 4
MCAlign == 4
MCBytes == 0 .. 3
MCDlen == 2
MCRsaScratch == 4
MCWbSizes == {0, 4, 8, 12}
====
