----------------------------- MODULE BlockList -----------------------------
(***************************************************************************)
(* BlockList (src/blocklist.cpp): the two sets read from the blocklist     *)
(* file, and isHostnameBlocked(), which tries a hostname as a full match   *)
(* and then walks its parent domains, one per dot, as wildcard suffixes.   *)
(*                                                                         *)
(* A hostname or a line is the sequence of its bytes.  The lookup is the   *)
(* code's loop, a step per dot, so that it can be proved by its invariant; *)
(* the sets never change, so lookups of several threads do not interfere.  *)
(***************************************************************************)
EXTENDS Integers, Sequences

CONSTANT Lines       \* the lines of the file, as sequences of bytes

Dot == 46
Star == 42
Hash == 35
Space == {9, 10, 11, 12, 13, 32}     \* isspace()

-----------------------------------------------------------------------------
\* The constructor.

Stripped(line) == SelectSeq(line, LAMBDA c : c \notin Space)

\* Erasing characters from a line leaves a line.
ASSUME LinesAssumption == \A l \in Lines : l \in Seq(0..255) /\ Stripped(l) \in Seq(0..255)

Entries == {e \in {Stripped(l) : l \in Lines} : e # <<>> /\ e[1] # Hash}
IsWildcard(e) == Len(e) > 2 /\ e[1] = Star /\ e[2] = Dot
Exact == {e \in Entries : ~IsWildcard(e)}                       \* _exact
Wildcard == {SubSeq(e, 3, Len(e)) : e \in {x \in Entries : IsWildcard(x)}}   \* _wildcard

-----------------------------------------------------------------------------
\* isHostnameBlocked(host).

VARIABLES lpc,       \* idle, walk, done
          host,      \* the hostname asked about
          dot,       \* position of the dot the walk is at; 0 before the first
          blocked    \* the answer, when done

lvars == <<lpc, host, dot, blocked>>

LInit == lpc = "idle" /\ host = <<>> /\ dot = 0 /\ blocked = FALSE

Answer(b) == lpc' = "done" /\ blocked' = b

LookupExact(h) ==
  /\ lpc = "idle"
  /\ host' = h
  /\ IF h \in Exact THEN Answer(TRUE) ELSE lpc' = "walk" /\ UNCHANGED blocked
  /\ UNCHANGED dot

\* find('.', dot + 1): j is the first dot after the one the walk is at.
NextDot(j) ==
  /\ j \in (dot + 1)..Len(host) /\ host[j] = Dot
  /\ \A k \in (dot + 1)..(j - 1) : host[k] # Dot

\* (mutant) The suffix begins with the dot.
SuffixWithDot(j) == SubSeq(host, j, Len(host))

\* substr(dot + 1): the parent domain after the dot at j.
Suffix(j) == SubSeq(host, j + 1, Len(host))

LookupParent ==
  /\ lpc = "walk"
  /\ \E j \in 1..Len(host) :
       /\ NextDot(j)
       /\ IF Suffix(j) = <<>> THEN Answer(FALSE) /\ UNCHANGED dot
          ELSE IF Suffix(j) \in Wildcard THEN Answer(TRUE) /\ UNCHANGED dot
          ELSE dot' = j /\ UNCHANGED <<lpc, blocked>>
  /\ UNCHANGED host

LookupNoMore ==
  /\ lpc = "walk"
  /\ \A j \in (dot + 1)..Len(host) : host[j] # Dot
  /\ Answer(FALSE)
  /\ UNCHANGED <<host, dot>>

Lookup == LookupParent \/ LookupNoMore

LNext == (\E h \in Seq(0..255) : LookupExact(h)) \/ Lookup
LSpec == LInit /\ [][LNext]_lvars

LTypeOK ==
  /\ lpc \in {"idle", "walk", "done"}
  /\ host \in Seq(0..255)
  /\ dot \in 0..Len(host)
  /\ blocked \in BOOLEAN

-----------------------------------------------------------------------------
\* What blocklist.hpp says of a line: with a leading "*." it blocks every name that
\* ends with the rest of it, dot included; otherwise it blocks itself.
EndsWith(h, t) == Len(t) <= Len(h) /\ SubSeq(h, Len(h) - Len(t) + 1, Len(h)) = t
Blocks(e, h) == IF IsWildcard(e) THEN EndsWith(h, Tail(e)) ELSE h = e
Listed(h) == \E l \in Lines : /\ Stripped(l) # <<>> /\ Stripped(l)[1] # Hash
                              /\ Blocks(Stripped(l), h)

\* isHostnameBlocked() finds what the list says of the hostname, wherever in it the
\* suffix begins: the walk neither stops short of a parent domain, nor matches across
\* a label, nor blocks the apex of a wildcard.
LookupCorrect == lpc = "done" => (blocked <=> Listed(host))
=============================================================================
