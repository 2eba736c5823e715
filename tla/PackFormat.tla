------------------------------ MODULE PackFormat ------------------------------
(***************************************************************************)
(* The pack file (store/pack.rs): write_pack lays the chunks of one flush  *)
(* out, full ones in a super-block that is compressed as one frame, deltas *)
(* behind it, then the index and the footer.  read_pack takes the file     *)
(* apart again, after a crash or a disk may have damaged it, and the       *)
(* stores read chunks out of it by hash or by the place an index names     *)
(* (local.rs and cloud.rs, read_from_location and read_chunk_data).        *)
(*                                                                         *)
(* A file is a sequence of bytes, and a byte says what it is the n-th byte *)
(* of.  A compressed chunk, delta or frame can be read from all its bytes  *)
(* in their order and from nothing else.                                   *)
(***************************************************************************)
EXTENDS Naturals, Sequences, FiniteSetsExt, SequencesExt

CONSTANTS
    Chunk,
    RawLen,         \* the length of each chunk
    RandomLooking,  \* is_high_entropy: chunks that are not worth compressing
    ZipLens,        \* lengths a chunk may be compressed to
    DeltaLens,      \* lengths a delta may have
    FrameLens,      \* lengths a super-block may be compressed to
    MaxEntries,     \* bound: entries of a pack
    FooterSize,     \* the length of a footer
    None,           \* no base, no super-block
    Corrupt         \* an error instead of a result

ASSUME FormatChunks == /\ RawLen \in [Chunk -> Nat \ {0}]
                       /\ RandomLooking \subseteq Chunk
                       /\ None \notin Chunk /\ Corrupt # None
ASSUME FormatSizes  == /\ ZipLens \cup DeltaLens \cup FrameLens \subseteq Nat \ {0}
                       /\ MaxEntries \in Nat /\ FooterSize \in Nat \ {0}

VARIABLES
    input,      \* the entries to write: PackEntry
    next,       \* the position of the loop over them
    block,      \* full_raw_data
    index,      \* index_entries
    output,     \* the pack, as far as it is written
    phase       \* "full", "delta", "written" or "damaged"

formatVars == <<input, next, block, index, output, phase>>

Bytes(what) == [i \in 1 .. what.len |-> <<what, i>>]

Raw(c)        == [form |-> "raw", of |-> c, len |-> RawLen[c]]
Zipped(c, n)  == [form |-> "zip", of |-> c, len |-> n]
Delta(c, b, n) == [form |-> "delta", of |-> <<c, b>>, len |-> n]
Frame(s, n)   == [form |-> "frame", of |-> s, len |-> n]
Index(es, v)  == [form |-> IF v = "v1" THEN "index v1" ELSE "index", of |-> es, len |-> Len(es) + 1]
Footer(f)     == [form |-> "footer", of |-> f, len |-> FooterSize]
Broken        == <<[form |-> "broken", of |-> None, len |-> 1], 1>>

(* What bytes are all the bytes of, if it has this form.                   *)
Whole(bytes, form) ==
    IF /\ bytes # <<>>
       /\ \A i \in DOMAIN bytes : bytes[i][1].form = form
       /\ bytes = Bytes(bytes[1][1])
    THEN bytes[1][1].of ELSE Corrupt

-----------------------------------------------------------------------------
(* Writing.                                                                *)

Full == [hash : Chunk, type : {"full"}, base : {None}, len : ZipLens]

Deltas == {e \in [hash : Chunk, type : {"delta"}, base : Chunk, len : DeltaLens] : e.base # e.hash}

(* The stores buffer a chunk once.                                         *)
Distinct(s) == \A i, j \in DOMAIN s : s[i].hash = s[j].hash => i = j

FormatInit ==
    /\ input \in {s \in BoundedSeq(Full \cup Deltas, MaxEntries) : Distinct(s)}
    /\ next = 1
    /\ block = <<>>
    /\ index = <<>>
    /\ output = <<>>
    /\ phase = "full"

(* A chunk that looks random is not compressed, and the result is not used *)
(* if it saves less than a twentieth.                                      *)
StoredAs(e) ==
    IF e.hash \in RandomLooking \/ e.len >= (RawLen[e.hash] * 95) \div 100
    THEN Raw(e.hash) ELSE Zipped(e.hash, e.len)

TypeOf(what) == IF what.form = "raw" THEN "raw" ELSE "full"

IndexEntry(e, type, offset, length) ==
    [hash |-> e.hash, type |-> type, base |-> e.base, offset |-> offset, length |-> length]

(* The first pass: full chunks one after another in the super-block.       *)
WriteFull ==
    LET e == input[next]
        what == StoredAs(e)
    IN
    /\ phase = "full" /\ next <= Len(input)
    /\ next' = next + 1
    /\ IF e.type = "delta"
       THEN UNCHANGED <<block, index>>
       ELSE /\ index' = Append(index, IndexEntry(e, TypeOf(what), Len(block), what.len))
            /\ block' = block \o Bytes(what)
    /\ UNCHANGED <<input, output, phase>>

WriteSuperblock ==
    /\ phase = "full" /\ next > Len(input)
    /\ IF block = <<>> THEN UNCHANGED output
       ELSE \E n \in FrameLens : output' = Bytes(Frame(block, n))
    /\ phase' = "delta"
    /\ next' = 1
    /\ UNCHANGED <<input, block, index>>

(* The second pass: deltas, already compressed, behind the super-block.    *)
WriteDelta ==
    LET e == input[next] IN
    /\ phase = "delta" /\ next <= Len(input)
    /\ next' = next + 1
    /\ IF e.type = "delta"
       THEN /\ index' = Append(index, IndexEntry(e, "delta", Len(output), e.len))
            /\ output' = output \o Bytes(Delta(e.hash, e.base, e.len))
       ELSE UNCHANGED <<index, output>>
    /\ UNCHANGED <<input, block, phase>>

(* Mistake: the checksum covers the data alone, as that of older packs. *)
DataOnly(data, f) == <<data, 0, 0, "v2">>

(* blake3 of the data and, since v3, of the other fields of the footer:    *)
(* equal for equal input only.                                             *)
Checksum(data, f) ==
    IF f.magic = "v3" THEN <<data, f.index_offset, f.index_len, f.magic>>
    ELSE <<data, 0, 0, "v2">>

Finished(data, es, version) ==
    LET bytes == Bytes(Index(es, version))
        f == [index_offset |-> Len(data), index_len |-> Len(bytes), magic |-> version,
              checksum |-> <<>>]
    IN  data \o bytes \o Bytes(Footer([f EXCEPT !.checksum = Checksum(data \o bytes, f)]))

WriteIndex ==
    /\ phase = "delta" /\ next > Len(input)
    /\ output' = Finished(output, index, "v3")
    /\ phase' = "written"
    /\ UNCHANGED <<input, next, block, index>>

(* Packs of the two older formats have every chunk at its own place, and   *)
(* the first format full chunks only.                                      *)
OldBytes(e) == IF e.type = "delta" THEN Delta(e.hash, e.base, e.len) ELSE Zipped(e.hash, e.len)

(* Where the data is after each of the entries.                            *)
OldData(entries) ==
    LET data[n \in 0 .. Len(entries)] ==
            IF n = 0 THEN <<>> ELSE data[n - 1] \o Bytes(OldBytes(entries[n]))
    IN  data

OldPack ==
    LET data == OldData(input)
        es == [i \in 1 .. Len(input) |->
                  IndexEntry(input[i], input[i].type, Len(data[i - 1]), input[i].len)]
    IN
    /\ phase = "full" /\ next = 1
    /\ \E version \in {"v1", "v2"} :
          /\ version = "v1" => \A i \in DOMAIN input : input[i].type = "full"
          /\ output' = Finished(data[Len(input)], es, version)
    /\ index' = es
    /\ phase' = "written"
    /\ UNCHANGED <<input, next, block>>

-----------------------------------------------------------------------------
(* A crash keeps a part of the file; a disk changes what it stores.        *)

FooterOf(data) == Whole(SubSeq(data, Len(data) - FooterSize + 1, Len(data)), "footer")
BodyOf(data)   == SubSeq(data, 1, Len(data) - FooterSize)

IsNew == FooterOf(output).magic = "v3"

Truncate ==
    /\ phase = "written" /\ IsNew
    /\ \E n \in 0 .. Len(output) - 1 : output' = SubSeq(output, 1, n)
    /\ phase' = "damaged"
    /\ UNCHANGED <<input, next, block, index>>

ChangeByte ==
    /\ phase = "written" /\ IsNew
    /\ \E i \in DOMAIN output : output' = [output EXCEPT ![i] = Broken]
    /\ phase' = "damaged"
    /\ UNCHANGED <<input, next, block, index>>

ChangeFooter ==
    LET f == FooterOf(output)
        others == {[f EXCEPT !.index_offset = n] : n \in 0 .. Len(output)}
                      \cup {[f EXCEPT !.index_len = n] : n \in 0 .. Len(output)}
                      \cup {[f EXCEPT !.magic = m] : m \in {"v1", "v2", "other"}}
    IN
    /\ phase = "written" /\ IsNew
    /\ \E g \in others \ {f} : output' = BodyOf(output) \o Bytes(Footer(g))
    /\ phase' = "damaged"
    /\ UNCHANGED <<input, next, block, index>>

FormatNext ==
    \/ WriteFull \/ WriteSuperblock \/ WriteDelta \/ WriteIndex \/ OldPack
    \/ Truncate \/ ChangeByte \/ ChangeFooter

FormatSpec == FormatInit /\ [][FormatNext]_formatVars

-----------------------------------------------------------------------------
(* Reading.                                                                *)

IsDelta(e) == e.type = "delta"
End(e)     == e.offset + e.length

(* Mistake: the super-block ends where the index starts. *)
UpToIndex(es, index_start) == index_start

(* The super-block ends where the first delta or the index starts.         *)
SuperblockEnd(es, index_start) ==
    Min({index_start} \cup {e.offset : e \in {x \in Range(es) : IsDelta(x)}})

(* The decompressed super-block, None if there is none.                    *)
Superblock(data, es, index_start) ==
    LET frame == SubSeq(data, 1, SuperblockEnd(es, index_start))
        content == Whole(frame, "frame")
        ends == {End(e) : e \in {x \in Range(es) : ~IsDelta(x)}}
    IN  IF frame = <<>> THEN None
        ELSE IF content = Corrupt \/ Len(content) # Max({0} \cup ends) THEN Corrupt
        ELSE content

ReadIndex(data, f) ==
    Whole(SubSeq(data, f.index_offset + 1, f.index_offset + f.index_len),
          IF f.magic = "v1" THEN "index v1" ELSE "index")

(* read_pack: the index and the super-block, or an error.                  *)
ReadPack(data) ==
    LET f == FooterOf(data)
        body == BodyOf(data)
        es == ReadIndex(body, f)
        sb == IF f.magic = "v3" THEN Superblock(data, es, f.index_offset) ELSE None
    IN  IF \/ Len(data) < FooterSize
           \/ f = Corrupt
           \/ f.magic \notin {"v1", "v2", "v3"}
           \/ Checksum(body, f) # f.checksum
           \/ f.index_offset + f.index_len > Len(body)
           \/ es = Corrupt
           \/ sb = Corrupt
        THEN Corrupt
        ELSE [entries |-> es, superblock |-> sb]

(* checked_range, and the same test for the super-block.                   *)
Slice(data, e) == IF End(e) > Len(data) THEN <<>> ELSE SubSeq(data, e.offset + 1, End(e))

(* read_chunk_data: the chunk an entry describes, its base being at hand,  *)
(* if it is the one that was asked for.                                    *)
ReadChunkData(data, sb, e, hash) ==
    LET bytes == IF IsDelta(e) \/ sb = None THEN Slice(data, e) ELSE Slice(sb, e)
        chunk == IF IsDelta(e)
                 THEN LET d == Whole(bytes, "delta") IN
                      IF d # Corrupt /\ d[2] = e.base THEN d[1] ELSE Corrupt
                 ELSE Whole(bytes, IF e.type = "raw" THEN "raw" ELSE "zip")
    IN  IF chunk = hash THEN chunk ELSE Corrupt

(* The scan ends at the first entry that it accepts.                       *)
FirstEntry(es, accepts) == IF accepts = {} THEN Corrupt ELSE es[Min(accepts)]

(* get_inner: scan for the hash.                                           *)
GetByHash(data, hash) ==
    LET p == ReadPack(data)
        e == FirstEntry(p.entries, {i \in DOMAIN p.entries : p.entries[i].hash = hash})
    IN  IF p = Corrupt \/ e = Corrupt THEN Corrupt
        ELSE ReadChunkData(data, p.superblock, e, hash)

(* Mistake: an entry is found by its offset. *)
OffsetOnly(e, loc) == e.offset = loc.offset

SamePlace(e, loc) == e.offset = loc.offset /\ e.length = loc.length

(* read_from_location: the first entry at the place the dedup index has.   *)
GetByPlace(data, hash, loc) ==
    LET p == ReadPack(data)
        e == FirstEntry(p.entries, {i \in DOMAIN p.entries : SamePlace(p.entries[i], loc)})
    IN  IF p = Corrupt \/ e = Corrupt THEN Corrupt
        ELSE ReadChunkData(data, p.superblock, [e EXCEPT !.offset = loc.offset,
                                                         !.length = loc.length], hash)

-----------------------------------------------------------------------------
(* Properties.                                                             *)

(* Every chunk that was given to write_pack comes back by its hash from    *)
(* the file, and from a file of either older format.                       *)
EveryChunkReadable ==
    phase = "written" => \A i \in DOMAIN input : GetByHash(output, input[i].hash) = input[i].hash

(* A chunk also comes back by its place alone, unless another entry of the *)
(* pack has the same offset and length: offsets of full chunks count in    *)
(* the decompressed super-block and those of deltas in the file.           *)
PlaceReadable ==
    phase = "written" =>
        \A e \in Range(index) :
            (\A x \in Range(index) : x.offset = e.offset /\ x.length = e.length => x = e)
                => GetByPlace(output, e.hash, e) = e.hash

(* A pack that is cut short, or in which a byte or a field of the footer   *)
(* changed, is an error and never read as a pack with other chunks.        *)
DamageDetected == phase = "damaged" => ReadPack(output) = Corrupt

=============================================================================
