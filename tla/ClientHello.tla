---------------------------- MODULE ClientHello ----------------------------
(***************************************************************************)
(* extractHostname() (src/hostname_extractor.cpp): the server name in a    *)
(* TLS ClientHello, out of the bytes a client has sent so far.  The record *)
(* layer is stripped first (a message may be spread over several records), *)
(* then the message is walked to its server_name extension.                *)
(*                                                                         *)
(* Buffers are those of module Dissect: a read past the end returns junk.  *)
(* An answer is Found with the name's bytes, NotFound, or NeedMore.        *)
(***************************************************************************)
EXTENDS Dissect

CONSTANTS
  RandomLen,    \* 32: bytes of the client's random
  MaxRecord,    \* 16384: largest record payload
  MaxMsg        \* 65535: largest message body that is believed

ASSUME HelloLimitsAssumption ==
  /\ RandomLen \in Nat
  /\ MaxRecord \in Nat \ {0} /\ MaxRecord < 65536
  /\ MaxMsg \in Nat /\ MaxMsg < 65536

MinMsg == 2 + RandomLen      \* 34: a body shorter than version and random is refused
Handshake == 22              \* 0x16
RecordHeader == 5
MsgHeader == 4

NeedMore == [res |-> "NeedMore", bytes |-> <<>>]
NotFound == [res |-> "NotFound", bytes |-> <<>>]
Found(bytes) == [res |-> "Found", bytes |-> bytes]

Be24(p, i) == Rd(p, i) * 65536 + Be16(p, i + 1)

-----------------------------------------------------------------------------
\* collectHandshake(): the handshake message, the record headers stripped.

\* (mutant) The record that is announced and not complete is taken as it is.
TakeRecordShort(p, off) ==
  LET rl == Be16(p, off + 3)
  IN IF Size(p) - off < RecordHeader THEN NeedMore
     ELSE IF Rd(p, off) # Handshake \/ Rd(p, off + 1) # 3 \/ rl \notin 1..MaxRecord THEN NotFound
     ELSE Found(Bytes(p, off + RecordHeader, rl))

\* (mutant) A record header that has not come whole is taken for something else.
TakeRecordGivesUp(p, off) ==
  LET rl == Be16(p, off + 3)
  IN IF Size(p) - off < RecordHeader THEN NotFound
     ELSE IF Rd(p, off) # Handshake \/ Rd(p, off + 1) # 3 \/ rl \notin 1..MaxRecord THEN NotFound
     ELSE IF Size(p) - off - RecordHeader < rl THEN NeedMore
     ELSE Found(Bytes(p, off + RecordHeader, rl))

\* The payload of the record at off.
TakeRecord(p, off) ==
  LET rl == Be16(p, off + 3)
  IN IF Size(p) - off < RecordHeader THEN NeedMore
     ELSE IF Rd(p, off) # Handshake \/ Rd(p, off + 1) # 3 \/ rl \notin 1..MaxRecord THEN NotFound
     ELSE IF Size(p) - off - RecordHeader < rl THEN NeedMore
     ELSE Found(Bytes(p, off + RecordHeader, rl))

\* The length of a message from its header; 0 when this is no ClientHello.
HelloSize(p, i) ==
  LET n == Be24(p, i + 1) IN IF Rd(p, i) = 1 /\ n \in MinMsg..MaxMsg THEN MsgHeader + n ELSE 0

\* Record payloads are joined until the message they carry is whole.  Its length is
\* known once four bytes of it are there, be they of one record or of several.
Join(p, off, scratch) ==
  LET from[s \in [off : Nat, scratch : Seq(Byte)]] ==
        LET rec  == TakeRecord(p, s.off)
            all  == s.scratch \o rec.bytes
            want == HelloSize(Buffer(all, 0), 0)
        IN IF rec.res # "Found" THEN rec
           ELSE IF Len(all) >= MsgHeader /\ want = 0 THEN NotFound
           ELSE IF Len(all) >= MsgHeader /\ want <= Len(all) THEN Found(SubSeq(all, 1, want))
           ELSE from[[off |-> s.off + RecordHeader + Len(rec.bytes), scratch |-> all]]
  IN from[[off |-> off, scratch |-> scratch]]

\* (mutant) The fast path reads the message length from a first record too short to
\* hold it.
FastPathAnyRecord(p) == Size(p) >= RecordHeader + MsgHeader

\* The first record holds the message header.
FastPath(p) == Be16(p, 3) >= MsgHeader /\ Size(p) >= RecordHeader + MsgHeader

CollectHandshake(p) ==
  LET rec0 == Be16(p, 3)
      want == HelloSize(p, RecordHeader)
  IN IF Size(p) = 0 THEN NeedMore
     ELSE IF Rd(p, 0) # Handshake \/ (Size(p) >= 2 /\ Rd(p, 1) # 3) THEN NotFound
     ELSE IF Size(p) < RecordHeader THEN NeedMore
     ELSE IF rec0 \notin 1..MaxRecord \/ (FastPath(p) /\ want = 0) THEN NotFound
     ELSE IF FastPath(p) /\ want <= rec0
          THEN IF Size(p) < RecordHeader + want THEN NeedMore
               ELSE Found(Bytes(p, RecordHeader, want))
     ELSE Join(p, 0, <<>>)

-----------------------------------------------------------------------------
\* parseClientHello(): hs is a whole message.

\* (mutant) The first entry is the name, whatever its type.
FirstNameOfAnyType(hs, q, end) ==
  LET n == Be16(hs, q + 1)
  IN IF q + 3 > end \/ q + 3 + n > end THEN NotFound ELSE Found(Bytes(hs, q + 3, n))

\* The first host_name of a server name list, between q and end.
FirstHostName(hs, q, end) ==
  LET from[o \in Nat] ==
        LET n == Be16(hs, o + 1)
        IN IF o + 3 > end \/ o + 3 + n > end THEN NotFound
           ELSE IF Rd(hs, o) = 0 THEN Found(Bytes(hs, o + 3, n))
           ELSE from[o + 3 + n]
  IN from[q]

\* The server_name extension (type 0) among those between o and end; the list in it
\* ends with the extension at the latest.
FindServerName(hs, o, end) ==
  LET from[i \in Nat] ==
        LET elen  == Be16(hs, i + 2)
            next  == i + 4 + elen
            named == i + 6 + Be16(hs, i + 4)
        IN IF i + 4 > end \/ next > end THEN NotFound
           ELSE IF Be16(hs, i) # 0 THEN from[next]
           ELSE IF elen < 2 THEN NotFound
           ELSE FirstHostName(hs, i + 6, IF named < next THEN named ELSE next)
  IN from[o]

\* The end of the extensions whose length is at o: never past the message.
ExtensionsEnd(hs, o) == IF o + 2 + Be16(hs, o) > Size(hs) THEN Size(hs) ELSE o + 2 + Be16(hs, o)

\* Each variable part is skipped by its own length, after the length is seen to be there.
ParseClientHello(hs) ==
  LET sid   == MsgHeader + 2 + RandomLen
      suits == sid + 1 + Rd(hs, sid)
      comp  == suits + 2 + Be16(hs, suits)
      exts  == comp + 1 + Rd(hs, comp)
  IN IF Size(hs) < MsgHeader \/ Rd(hs, 0) # 1 \/ sid + 1 > Size(hs) \/ suits + 2 > Size(hs)
        \/ comp + 1 > Size(hs) \/ exts + 2 > Size(hs)
     THEN NotFound
     ELSE FindServerName(hs, exts + 2, ExtensionsEnd(hs, exts))

ExtractHostname(p) ==
  LET hs == CollectHandshake(p)
  IN IF hs.res = "Found" THEN ParseClientHello(Buffer(hs.bytes, p.junk)) ELSE hs
=============================================================================
