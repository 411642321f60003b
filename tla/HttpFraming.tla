---------------------------- MODULE HttpFraming ----------------------------
(***************************************************************************)
(* read_http_response of the adapter: one HTTP response taken off a stream *)
(* that arrives in pieces and that Firecracker keeps open afterwards.  The *)
(* stream is a sequence of bytes; what the header lines say about the body *)
(* is given beside it, as [kind |-> "given", n |-> the Content-Length], or *)
(* with kind "absent", "chunked", "invalid" or "overflow", when n means    *)
(* nothing; whole is FALSE for a response that lacks some of what its      *)
(* headers announce.                                                       *)
(***************************************************************************)
EXTENDS GracefulShutdown, Sequences, FiniteSetsExt

CONSTANTS
    Responses,       \* what the server sends: [bytes, length, whole]
    ChunkSize,       \* bytes one read returns at most (4096)
    MaxHeader        \* MAX_HEADER_BYTES

Lengths == [kind : {"given", "absent", "chunked", "invalid", "overflow"}, n : Nat]

ASSUME HttpAssumption ==
    /\ Responses \subseteq [bytes : Seq(STRING), length : Lengths, whole : BOOLEAN]
    /\ Responses # {} /\ ChunkSize \in Nat /\ MaxHeader \in Nat

VARIABLES
    response,        \* the server's response
    sent,            \* how many of its bytes are on the stream
    got,             \* how many of them have been read
    phase,           \* "off", "reading", "ok" or "err"
    returned         \* the bytes returned

http == <<response, sent, got, phase, returned>>

Terminator == <<"cr", "lf", "cr", "lf">>

(* The first position at which needle begins, 0 if none.                    *)
find_subslice(haystack, needle) ==
    LET found == {i \in 1..Len(haystack) - Len(needle) + 1 :
                    SubSeq(haystack, i, i + Len(needle) - 1) = needle}
    IN IF found = {} THEN 0 ELSE Min(found)

HttpInit ==
    /\ response \in Responses /\ phase \in {"off", "reading"}
    /\ phase = "off" => response = CHOOSE r \in Responses : TRUE
    /\ sent = 0 /\ got = 0 /\ returned = <<>>

Buffered == SubSeq(response.bytes, 1, got)

HeaderEnd ==
    LET pos == find_subslice(Buffered, Terminator) IN IF pos = 0 THEN 0 ELSE pos + 3

TooLong == HeaderEnd = 0 /\ got > MaxHeader

RefusedLength == HeaderEnd # 0 /\ response.length.kind \in {"chunked", "invalid", "overflow"}

(* A missing Content-Length is 0.                                           *)
BodyLength == IF response.length.kind = "given" THEN response.length.n ELSE 0

Total == HeaderEnd + BodyLength

(* Mutant: a body read to the end of the stream.                            *)
UntilEof ==
    /\ HeaderEnd # 0 /\ ~RefusedLength /\ got >= Total
    /\ got = sent /\ child # "running"

Whole == HeaderEnd # 0 /\ ~RefusedLength /\ got >= Total

Ends(p, bytes) == phase' = p /\ returned' = bytes /\ UNCHANGED <<response, sent, got>>

(* Mutant: whatever was read is returned.                                   *)
DecideUncut ==
    /\ phase = "reading"
    /\ \/ (TooLong \/ RefusedLength) /\ Ends("err", <<>>)
       \/ Whole /\ Ends("ok", Buffered)

(* What the loops test before each read.                                    *)
Decide ==
    /\ phase = "reading"
    /\ \/ (TooLong \/ RefusedLength) /\ Ends("err", <<>>)
       \/ Whole /\ Ends("ok", SubSeq(Buffered, 1, Total))

Blocks == phase = "reading" /\ ~TooLong /\ ~RefusedLength /\ ~Whole

(* A read returns some of what is there, up to a chunk.                     *)
ReadChunk ==
    /\ Blocks
    /\ got' \in got + 1..Earlier(got + ChunkSize, sent)
    /\ UNCHANGED <<response, sent, phase, returned>>

ReadEof ==
    /\ Blocks /\ got = sent /\ child # "running"
    /\ Ends("err", <<>>)

ReadTimeout ==
    /\ Blocks /\ got = sent
    /\ Ends("err", <<>>)

ServerSends ==
    /\ child = "running" /\ phase = "reading"
    /\ sent' \in sent + 1..Len(response.bytes)
    /\ UNCHANGED <<response, got, phase, returned>>

HttpStep == Decide \/ ReadChunk \/ ReadEof
=============================================================================
