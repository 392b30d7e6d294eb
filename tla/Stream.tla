------------------------------- MODULE Stream -------------------------------
(***************************************************************************)
(* A hasher without collisions: it keeps all that was written to it, and   *)
(* where hashes are folded with ^, the set of them.                        *)
(***************************************************************************)
EXTENDS Sequences

New == <<>>
Write(stream, value) == Append(stream, value)
WriteU64(stream, value) == Append(stream, value)
Combine(streams) == {streams[x] : x \in DOMAIN streams}
=============================================================================
