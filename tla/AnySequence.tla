---------------------------- MODULE AnySequence ----------------------------
EXTENDS Sequences

\* s is a sequence, whatever its elements.
IsSeq(s) == s \in Seq({s[i] : i \in DOMAIN s})
=============================================================================
