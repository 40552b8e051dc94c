-------------------------------- MODULE Dpi --------------------------------
(***************************************************************************)
(* TLS-record fragmentation (crates/dns-helper/src/dpi.rs), over sequences *)
(* of bytes.  Offsets here count from 1, as TLA+ does: the byte at offset  *)
(* i of the code is p[i + 1].                                              *)
(***************************************************************************)
EXTENDS Integers, Sequences

TLS_HEADER == 5
CONTENT_HANDSHAKE == 22
HANDSHAKE_CLIENT_HELLO == 1
EXT_SNI == 0

\* The bytes of a hello before its session id: type, length, version, random
Preamble == 1 + 3 + 2 + 32

None == -1

Byte(p, i) == IF i \in DOMAIN p THEN p[i] ELSE None
U16be(p, i) ==
    IF i \in DOMAIN p /\ i + 1 \in DOMAIN p THEN p[i] * 256 + p[i + 1] ELSE None

\* Past the field at i, whose length is in its first w bytes; once
\* something did not parse, nothing does.
Skip(p, i, w) ==
    LET n == IF w = 1 THEN Byte(p, i) ELSE U16be(p, i) IN
        IF i = None \/ n = None THEN None ELSE i + w + n

\* The session id, the cipher suites and the compression methods
Extensions(p) ==
    LET i == Skip(p, Skip(p, Skip(p, Preamble + 1, 1), 2), 1) IN
        IF i = None \/ U16be(p, i) = None THEN None ELSE i + 2

\* Mutant: the middle of the name is taken from where its extension starts.
MiddleOfExtension(p, e) ==
    LET n == U16be(p, e + 7) IN
        IF Byte(p, e + 6) # 0 \/ n < 2 \/ e + 8 + n > Len(p)
        THEN None ELSE e + 3 + n \div 2

\* The number of bytes up to the middle of the host name in the extension at e
MiddleOfName(p, e) ==
    LET n == U16be(p, e + 7) IN
        IF Byte(p, e + 6) # 0 \/ n < 2 \/ e + 8 + n > Len(p)
        THEN None ELSE e + 8 + n \div 2

SniSplitOffset(p) ==
    LET walk[e \in 1..Len(p) + 1] ==
          IF e + 3 > Len(p) THEN None
          ELSE IF U16be(p, e) = EXT_SNI THEN MiddleOfName(p, e)
          ELSE LET next == e + 4 + U16be(p, e + 2) IN
                 IF next > Len(p) THEN None ELSE walk[next]
    IN IF \/ Byte(p, 1) # HANDSHAKE_CLIENT_HELLO
          \/ Extensions(p) \notin 1..Len(p) + 1
       THEN None ELSE walk[Extensions(p)]

\* A record is only cut if it is there in full and nothing follows it.
IsOneRecord(data) ==
    /\ Len(data) > TLS_HEADER
    /\ data[1] = CONTENT_HANDSHAKE
    /\ TLS_HEADER + U16be(data, 4) = Len(data)

CutOf(payload) ==
    LET c == SniSplitOffset(payload) IN
        IF c \in 1..Len(payload) - 1 THEN c
        ELSE Len(payload) \div 2

Record(version, part) ==
    <<CONTENT_HANDSHAKE>> \o version
      \o <<Len(part) \div 256, Len(part) % 256>> \o part

FragmentClientHello(data) ==
    LET payload == SubSeq(data, 6, Len(data))
        cut == CutOf(payload)
    IN IF ~IsOneRecord(data) \/ Len(payload) < 2 THEN data
       ELSE Record(SubSeq(data, 2, 3), SubSeq(payload, 1, cut))
              \o Record(SubSeq(data, 2, 3), SubSeq(payload, cut + 1, Len(payload)))

=============================================================================
