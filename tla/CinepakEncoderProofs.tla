------------------------ MODULE CinepakEncoderProofs ------------------------
(***************************************************************************)
(* Proofs about CinepakEncoder: for codebooks, frames and strip plans of   *)
(* every size, the encoder knows what its receivers hold and they show     *)
(* what it meant, as long as no call has failed since the last keyframe.   *)
(***************************************************************************)
EXTENDS CinepakEncoder, TLAPS

-----------------------------------------------------------------------------
\* Lemmas about codebooks and blocks.

\* The default book is a book.
LEMMA ZeroBookType == ZeroBook \in Book
BY CodebooksAssumption DEF ZeroBook, Book

\* A book overwritten in any slots with entries is a book.
LEMMA OverwriteIsTyped ==
    ASSUME NEW b \in Book, NEW payload,
           \A s \in DOMAIN payload : payload[s] \in Entry
    PROVE  Overwrite(b, payload) \in Book
BY DEF Overwrite, Book

\* Painting a block from books of any flavours it reads gives a block of
\* entries, without chroma in Gray8.
LEMMA PaintIsTyped ==
    ASSUME NEW K, NEW bs \in [K -> Book], NEW m \in Modes,
           NEW b \in V1Mb \cup V4Mb, b.kind \in K
    PROVE  /\ Paint(m, bs, b) \in [Quads -> Entry]
           /\ m = "Gray8" => \A q \in Quads : Paint(m, bs, b)[q].c = 0
<1>1. \A q \in Quads : b.idx[q] \in Slots
  BY DEF V1Mb, V4Mb
<1>2. \A q \in Quads : bs[b.kind][b.idx[q]] \in Entry
  BY <1>1 DEF Book
<1>3. \A e \in Entry : Pixel(m, e) \in Entry /\ (m = "Gray8" => Pixel(m, e).c = 0)
  <2>1. \A e \in Entry : e \in [y : Nat, c : Nat]
    BY CodebooksAssumption
  <2>2. QED
    BY <2>1, CodebooksAssumption DEF Pixel
<1>4. QED
  BY <1>2, <1>3 DEF Paint

\* A black block is a block of entries without chroma.
LEMMA BlackType == Black \in [Quads -> Entry] /\ \A q \in Quads : Black[q].c = 0
BY CodebooksAssumption DEF Black, ZeroEntry

-----------------------------------------------------------------------------
\* Lemmas about one codebook chunk.

\* The slots of an entry count are slots, and overwriting with a payload cut
\* out of a book copies just those slots.
LEMMA PayloadCopies ==
    ASSUME NEW b \in Book, NEW cb \in Book, NEW S \in SUBSET Slots
    PROVE  /\ Overwrite(b, Payload(cb, S)) \in Book
           /\ \A s \in Slots : Overwrite(b, Payload(cb, S))[s] = IF s \in S THEN cb[s] ELSE b[s]
<1>1. DOMAIN Payload(cb, S) = S /\ \A s \in S : Payload(cb, S)[s] = cb[s]
    BY DEF Payload
<1>2. \A s \in DOMAIN Payload(cb, S) : Payload(cb, S)[s] \in Entry
    BY <1>1 DEF Book
<1>3. Overwrite(b, Payload(cb, S)) \in Book
    BY <1>2, OverwriteIsTyped
<1> QED BY <1>1, <1>3 DEF Overwrite

\* What is emitted for one flavour.  The record that is kept is a book at the
\* entry count of the call.  A decoder that held the recorded slots before the
\* chunk holds the recorded slots after it, and the trained entry in every
\* slot that the strip refers to.
EmitIsSound(f, cb, used, e) ==
    /\ e.roll \in Roll
    /\ e.roll.n = call.n[f]
    /\ \A d \in Book :
         /\ Overwrite(d, e.payload) \in Book
         /\ (call.intra \/ (rolling[f] # None =>
                \A s \in 0 .. rolling[f].n - 1 : rolling[f].cb[s] = d[s]))
            => \A s \in 0 .. call.n[f] - 1 :
                  /\ e.roll.cb[s] = Overwrite(d, e.payload)[s]
                  /\ s \in used => Overwrite(d, e.payload)[s] = cb[s]

\* A full chunk carries every slot of the entry count.
LEMMA FullIsSound ==
    ASSUME NEW f \in Kinds, NEW cb \in Book, NEW used \in SUBSET Slots,
           call.n[f] \in 1 .. NumSlots
    PROVE  EmitIsSound(f, cb, used, Full(f, cb, used))
<1> DEFINE n == call.n[f]
           e == Full(f, cb, used)
<1>1. 0 .. n - 1 \in SUBSET Slots
    BY CodebooksAssumption DEF Slots
<1>2. e.roll = [cb |-> cb, n |-> n] /\ e.payload = Payload(cb, 0 .. n - 1)
    BY DEF Full
<1>3. ASSUME NEW d \in Book
      PROVE  /\ Overwrite(d, e.payload) \in Book
             /\ \A s \in 0 .. n - 1 : Overwrite(d, e.payload)[s] = cb[s]
    BY <1>1, <1>2, PayloadCopies
<1> QED BY <1>2, <1>3 DEF EmitIsSound, Roll

\* No chunk, or a header-only one: the recorded book already is as trained in
\* the slots that are referred to.
LEMMA InheritIsSound ==
    ASSUME NEW f \in Kinds, NEW cb \in Book, NEW used \in SUBSET Slots,
           call.n[f] \in 1 .. NumSlots, ~call.intra,
           rolling[f] \in Roll \cup {None}, PrevMatches(f),
           NeedUpdate(f, cb, used) = {}
    PROVE  EmitIsSound(f, cb, used, Inherit(f, cb))
<1> DEFINE n == call.n[f]
           e == Inherit(f, cb)
<1>1. rolling[f] \in Roll /\ rolling[f] # None /\ rolling[f].n = n
    BY DEF PrevMatches
<1>2. e.roll = rolling[f] /\ e.payload = Payload(cb, {})
    BY DEF Inherit
<1>3. ASSUME NEW d \in Book
      PROVE  /\ Overwrite(d, e.payload) \in Book
             /\ \A s \in 0 .. n - 1 : Overwrite(d, e.payload)[s] = d[s]
    <2>1. 0 .. n - 1 \in SUBSET Slots
        BY CodebooksAssumption DEF Slots
    <2> QED BY <1>2, <2>1, PayloadCopies
<1>4. \A s \in 0 .. n - 1 : s \in used => rolling[f].cb[s] = cb[s]
    BY DEF NeedUpdate
<1> QED BY <1>1, <1>2, <1>3, <1>4 DEF EmitIsSound

\* A selective chunk carries the slots that need an update and no other.
LEMMA SelectiveIsSound ==
    ASSUME NEW f \in Kinds, NEW cb \in Book, NEW used \in SUBSET Slots,
           call.n[f] \in 1 .. NumSlots, ~call.intra,
           rolling[f] \in Roll \cup {None}, PrevMatches(f)
    PROVE  EmitIsSound(f, cb, used, Selective(f, cb, NeedUpdate(f, cb, used)))
<1> DEFINE n == call.n[f]
           need == NeedUpdate(f, cb, used)
           e == Selective(f, cb, need)
           p == Payload(cb, need)
<1>1. rolling[f] \in Roll /\ rolling[f] # None /\ rolling[f].n = n /\ rolling[f].cb \in Book
    BY DEF PrevMatches, Roll
<1>2. e.payload = p /\ e.roll = [cb |-> Overwrite(rolling[f].cb, p), n |-> n]
    BY DEF Selective
<1>3. 0 .. n - 1 \in SUBSET Slots /\ need \in SUBSET Slots
    BY CodebooksAssumption DEF Slots, NeedUpdate
<1>4. ASSUME NEW d \in Book
      PROVE  /\ Overwrite(d, p) \in Book
             /\ \A s \in Slots : Overwrite(d, p)[s] = IF s \in need THEN cb[s] ELSE d[s]
    BY <1>3, PayloadCopies
<1>5. \A s \in 0 .. n - 1 : (s \in used /\ s \notin need) => rolling[f].cb[s] = cb[s]
    BY DEF NeedUpdate
<1>6. e.roll \in Roll
    BY <1>1, <1>2, <1>4 DEF Roll
<1>7. ASSUME NEW d \in Book,
             \A s \in 0 .. n - 1 : rolling[f].cb[s] = d[s],
             NEW s \in 0 .. n - 1
      PROVE  /\ e.roll.cb[s] = Overwrite(d, p)[s]
             /\ s \in used => Overwrite(d, p)[s] = cb[s]
    <2>1. e.roll.cb[s] = IF s \in need THEN cb[s] ELSE rolling[f].cb[s]
        BY <1>1, <1>2, <1>3, <1>4
    <2> QED BY <2>1, <1>3, <1>4, <1>5, <1>7
<1> QED BY <1>1, <1>2, <1>4, <1>6, <1>7 DEF EmitIsSound

\* Whatever form is chosen for the chunk, by reclaiming, need or wire size.
LEMMA EmitSound ==
    ASSUME NEW f \in Kinds, NEW cb \in Book, NEW used \in SUBSET Slots, NEW force \in BOOLEAN,
           call.n[f] \in 1 .. NumSlots, rolling[f] \in Roll \cup {None}
    PROVE  EmitIsSound(f, cb, used, Emit(f, cb, used, force))
<1>1. CASE Emit(f, cb, used, force) = Full(f, cb, used)
    BY <1>1, FullIsSound
<1>2. CASE ~call.intra /\ PrevMatches(f) /\ NeedUpdate(f, cb, used) = {}
           /\ Emit(f, cb, used, force) = Inherit(f, cb)
    BY <1>2, InheritIsSound
<1>3. CASE ~call.intra /\ PrevMatches(f)
           /\ Emit(f, cb, used, force) = Selective(f, cb, NeedUpdate(f, cb, used))
    BY <1>3, SelectiveIsSound
<1> QED BY <1>1, <1>2, <1>3 DEF Emit, EmitInter

-----------------------------------------------------------------------------
(***************************************************************************)
(* The inductive invariant.  Beyond the invariants of the module it says   *)
(* that an inter frame in the making has a previous picture of its own     *)
(* size and mode, and that the receiver shows a picture of that size       *)
(* whenever the encoder has one, also after calls that failed.             *)
(***************************************************************************)
InterHasPrev ==
    (pc = "strips" /\ ~call.intra) =>
        prev # None /\ prev.rows = call.rows /\ prev.fmt = call.mode

ReceiverFollows ==
    prev # None => recv.pic # None /\ recv.pic.rows = prev.rows

EncInv ==
    /\ TypeOK
    /\ InterHasPrev
    /\ ReceiverFollows
    /\ RollingMatchesDecoders
    /\ SkipsAgainstShownPicture
    /\ ShowsWhatWasMeant

\* A picture has the pixels of its own height.
LEMMA PictureShape ==
    ASSUME NEW p \in AnyPicture
    PROVE  p.rows \in Heights /\ p.fmt \in Modes /\ p.px \in Picture(p.rows)
<1>1. PICK r \in Heights : p \in PicturesOf(r)
    BY DEF AnyPicture
<1> QED BY <1>1 DEF PicturesOf

\* A record of the right parts is a picture.
LEMMA PictureOf ==
    ASSUME NEW r \in Heights, NEW m \in Modes, NEW px \in Picture(r)
    PROVE  [rows |-> r, fmt |-> m, px |-> px] \in AnyPicture
BY DEF AnyPicture, PicturesOf

\* A blank picture is a picture.
LEMMA BlankType == \A r : Blank(r) \in Picture(r)
BY BlackType DEF Blank, Picture

\* A block that is not skipped reads books of the flavours in use, below the
\* entry count.
LEMMA CodedBlock ==
    ASSUME NEW mbs \in StripMbs, NEW b \in StripBlocks
    PROVE  /\ mbs[b].kind = "Skip" => ~call.intra
           /\ mbs[b].kind # "Skip" =>
                 /\ mbs[b] \in V1Mb \cup V4Mb
                 /\ mbs[b].kind \in Kinds
                 /\ \A q \in Quads : /\ mbs[b].idx[q] \in Slots
                                     /\ mbs[b].idx[q] < call.n[mbs[b].kind]
                                     /\ mbs[b].idx[q] \in UsedSlots(mbs[b].kind, mbs)
<1>1. mbs[b] \in Mb /\ MbOfCall(mbs[b])
    BY DEF StripMbs
<1>3. mbs[b].kind # "Skip" => mbs[b] \in V1Mb \cup V4Mb
    BY <1>1 DEF Mb, SkipMb
<1>4. \A f \in Kinds : f # "Skip"
    BY EncoderAssumption DEF Flavours
<1>5. mbs[b] \in V1Mb \cup V4Mb => \A q \in Quads : mbs[b].idx[q] \in Slots
    BY DEF V1Mb, V4Mb
<1> QED BY <1>1, <1>3, <1>4, <1>5 DEF MbOfCall, UsedSlots

\* The decoding of a strip gives books and a picture.
LEMMA DecodeIsTyped ==
    ASSUME call \in Calls,
           NEW d \in Decodes(call.rows), NEW sent, NEW mbs \in StripMbs, NEW pic,
           \A f \in Kinds : Overwrite(d.books[f], sent[f].payload) \in Book,
           ~call.intra => pic \in AnyPicture /\ pic.rows = call.rows
    PROVE  DecodeStrip(d, sent, mbs, pic) \in Decodes(call.rows)
<1> DEFINE books == [f \in Kinds |-> Overwrite(d.books[f], sent[f].payload)]
           r == DecodeStrip(d, sent, mbs, pic)
<1>1. books \in Books
    BY DEF Books
<1>2. d.px \in Picture(call.rows) /\ DOMAIN d.px = Blocks(call.rows)
    BY DEF Decodes, Picture
<1>3. call.mode \in Modes
    BY EncoderAssumption DEF Calls
<1>4. ASSUME NEW b \in Blocks(call.rows), b \in StripBlocks, mbs[b].kind # "Skip"
      PROVE  Paint(call.mode, books, mbs[b]) \in [Quads -> Entry]
    BY <1>1, <1>3, <1>4, CodedBlock, PaintIsTyped DEF Books
<1>5. ASSUME NEW b \in Blocks(call.rows), b \in StripBlocks, mbs[b].kind = "Skip"
      PROVE  pic.px[b] \in [Quads -> Entry]
    BY <1>5, CodedBlock, PictureShape DEF Picture
<1>6. r.px \in Picture(call.rows)
    BY <1>2, <1>4, <1>5 DEF DecodeStrip, Picture
<1> QED BY <1>1, <1>6 DEF DecodeStrip, Decodes

-----------------------------------------------------------------------------
\* Lemmas about one strip.

\* What a strip is trained to are books.
LEMMA TrainedBooksType == TrainedBooks \subseteq Books
BY DEF TrainedBooks, Books, Book, EntriesOf

\* The chunks of a strip are sound in every flavour.
LEMMA SentIsSound ==
    ASSUME TypeOK, pc = "strips",
           NEW cb \in Books, NEW mbs \in StripMbs, NEW reclaimed, NEW f \in Kinds
    PROVE  /\ EmitIsSound(f, cb[f], UsedSlots(f, mbs), Sent(cb, mbs, reclaimed)[f])
           /\ call.n[f] \in 1 .. NumSlots
           /\ call \in Calls
<1>1. call \in Calls
    BY DEF TypeOK
<1>2. call.n[f] \in 1 .. NumSlots
    BY <1>1 DEF Calls
<1>3. rolling[f] \in Roll \cup {None} /\ cb[f] \in Book
    BY DEF TypeOK, Books
<1>4. UsedSlots(f, mbs) \in SUBSET Slots /\ (f \in reclaimed) \in BOOLEAN
    BY DEF UsedSlots
<1>5. EmitIsSound(f, cb[f], UsedSlots(f, mbs), Emit(f, cb[f], UsedSlots(f, mbs), f \in reclaimed))
    BY <1>2, <1>3, <1>4, EmitSound
<1> QED BY <1>1, <1>2, <1>5 DEF Sent

\* A decoder holds what the encoder recorded, as RollingMatchesDecoders says.
Agrees(books) ==
    call.intra \/ \A f \in Kinds :
        rolling[f] # None =>
            \A s \in 0 .. rolling[f].n - 1 : rolling[f].cb[s] = books[f][s]

\* A decoder that agrees with the records decodes a strip to a state that
\* agrees with the new records, and paints every coded block from the entries
\* that were trained.
LEMMA StripDecodes ==
    ASSUME TypeOK, pc = "strips",
           NEW cb \in Books, NEW mbs \in StripMbs, NEW reclaimed,
           NEW d \in Decodes(call.rows), NEW pic,
           ~call.intra => pic \in AnyPicture /\ pic.rows = call.rows
    PROVE  LET sent == Sent(cb, mbs, reclaimed)
               r == DecodeStrip(d, sent, mbs, pic)
           IN  /\ r \in Decodes(call.rows)
               /\ Agrees(d.books) =>
                    /\ \A f \in Kinds : \A s \in 0 .. call.n[f] - 1 :
                          sent[f].roll.cb[s] = r.books[f][s]
                    /\ \A b \in StripBlocks : mbs[b].kind # "Skip" =>
                          Paint(call.mode, r.books, mbs[b]) = Paint(call.mode, cb, mbs[b])
<1> DEFINE sent == Sent(cb, mbs, reclaimed)
           r == DecodeStrip(d, sent, mbs, pic)
<1>1. \A f \in Kinds : /\ EmitIsSound(f, cb[f], UsedSlots(f, mbs), sent[f])
                       /\ call.n[f] \in 1 .. NumSlots
    BY SentIsSound
<1>2. call \in Calls
    BY DEF TypeOK
<1>3. \A f \in Kinds : d.books[f] \in Book
    BY DEF Decodes, Books
<1>4. \A f \in Kinds : Overwrite(d.books[f], sent[f].payload) \in Book
    BY <1>1, <1>3 DEF EmitIsSound
<1>5. r \in Decodes(call.rows)
    BY <1>2, <1>4, DecodeIsTyped
<1>6. r.books = [f \in Kinds |-> Overwrite(d.books[f], sent[f].payload)]
    BY DEF DecodeStrip
<1>7. ASSUME Agrees(d.books), NEW f \in Kinds, NEW s \in 0 .. call.n[f] - 1
      PROVE  /\ sent[f].roll.cb[s] = r.books[f][s]
             /\ s \in UsedSlots(f, mbs) => r.books[f][s] = cb[f][s]
    <2>1. call.intra \/ (rolling[f] # None =>
              \A x \in 0 .. rolling[f].n - 1 : rolling[f].cb[x] = d.books[f][x])
        BY <1>7 DEF Agrees
    <2> DEFINE o == Overwrite(d.books[f], sent[f].payload)
    <2>2. /\ sent[f].roll.cb[s] = o[s]
          /\ s \in UsedSlots(f, mbs) => o[s] = cb[f][s]
        <3>1. EmitIsSound(f, cb[f], UsedSlots(f, mbs), sent[f]) /\ d.books[f] \in Book
            BY <1>1, <1>3
        <3> HIDE DEF sent
        <3> QED BY <3>1, <1>7, <2>1 DEF EmitIsSound
    <2>3. r.books[f] = o
        BY <1>6
    <2> QED BY <2>2, <2>3
<1>8. ASSUME Agrees(d.books), NEW b \in StripBlocks, mbs[b].kind # "Skip"
      PROVE  Paint(call.mode, r.books, mbs[b]) = Paint(call.mode, cb, mbs[b])
    <2>1. ASSUME NEW q \in Quads
          PROVE  r.books[mbs[b].kind][mbs[b].idx[q]] = cb[mbs[b].kind][mbs[b].idx[q]]
        <3> DEFINE k == mbs[b].kind
                   s == mbs[b].idx[q]
        <3>1. k \in Kinds /\ s \in Nat /\ s < call.n[k] /\ s \in UsedSlots(k, mbs)
            BY <1>8, CodedBlock DEF Slots
        <3>2. s \in 0 .. call.n[k] - 1
            BY <1>1, <3>1
        <3> QED BY <1>7, <1>8, <3>1, <3>2
    <2> QED BY <2>1 DEF Paint
<1> QED BY <1>5, <1>7, <1>8

-----------------------------------------------------------------------------
\* One lemma for each action.

\* The plan of a call: at least one strip, at most one for each row.
LEMMA PlanType ==
    ASSUME call \in Calls
    PROVE  /\ StripCount \in Nat \ {0}
           /\ StripCount <= call.rows
           /\ call.rows \in Nat \ {0}
           /\ (index \in Nat) => StripHeight \in Nat
<1>1. call.rows \in Nat \ {0} /\ call.strips \in Nat \ {0}
    BY EncoderAssumption DEF Calls
<1>2. StripCount \in Nat \ {0} /\ StripCount <= call.rows
    BY <1>1 DEF StripCount
<1>3. call.rows \div StripCount \in Nat /\ call.rows % StripCount \in Nat
    BY <1>1, <1>2
<1> QED BY <1>1, <1>2, <1>3 DEF StripHeight

\* A strip that is encoded keeps the records, the decoders and the picture meant
\* together.
LEMMA EncodeStripPreserves ==
    ASSUME EncInv, EncodeStrip
    PROVE  EncInv'
<1>1. PICK cb \in Books, mbs \in StripMbs, reclaimed \in SUBSET Reclaimable :
        /\ rolling' = [f \in Kinds |-> Sent(cb, mbs, reclaimed)[f].roll]
        /\ decNext' = DecodeStrip(decNext, Sent(cb, mbs, reclaimed), mbs, prev)
        /\ recvNext' = DecodeStrip(recvNext, Sent(cb, mbs, reclaimed), mbs, recv.pic)
        /\ want' = Meant(cb, mbs)
    BY TrainedBooksType DEF EncodeStrip
<1> DEFINE sent == Sent(cb, mbs, reclaimed)
<1>2. /\ pc = "strips" /\ pc' = pc /\ call' = call /\ prev' = prev /\ recv' = recv
      /\ decBooks' = decBooks /\ intact' = intact
      /\ index < StripCount /\ index' = index + 1 /\ row' = row + StripHeight
    BY DEF EncodeStrip
<1>3. call \in Calls /\ call # None /\ index \in 0 .. call.rows /\ row \in Nat
    BY <1>2 DEF EncInv, TypeOK
<1>4. /\ decNext \in Decodes(call.rows) /\ recvNext \in Decodes(call.rows)
      /\ want \in Picture(call.rows)
    BY <1>3 DEF EncInv, TypeOK
<1>5. ~call.intra => /\ prev \in AnyPicture /\ prev.rows = call.rows
                     /\ recv.pic \in AnyPicture /\ recv.pic.rows = call.rows
    BY <1>2 DEF EncInv, TypeOK, InterHasPrev, ReceiverFollows
<1>6. /\ decNext' \in Decodes(call.rows)
      /\ Agrees(decNext.books) =>
           /\ \A f \in Kinds : \A s \in 0 .. call.n[f] - 1 :
                 sent[f].roll.cb[s] = decNext'.books[f][s]
           /\ \A b \in StripBlocks : mbs[b].kind # "Skip" =>
                 Paint(call.mode, decNext'.books, mbs[b]) = Paint(call.mode, cb, mbs[b])
    <2>1. TypeOK /\ pc = "strips" /\ decNext \in Decodes(call.rows)
        BY <1>2, <1>4 DEF EncInv
    <2>2. ~call.intra => prev \in AnyPicture /\ prev.rows = call.rows
        BY <1>5
    <2> DEFINE r == DecodeStrip(decNext, sent, mbs, prev)
    <2>3. /\ r \in Decodes(call.rows)
          /\ Agrees(decNext.books) =>
               /\ \A f \in Kinds : \A s \in 0 .. call.n[f] - 1 :
                     sent[f].roll.cb[s] = r.books[f][s]
               /\ \A b \in StripBlocks : mbs[b].kind # "Skip" =>
                     Paint(call.mode, r.books, mbs[b]) = Paint(call.mode, cb, mbs[b])
        BY <2>1, <2>2, StripDecodes
    <2>4. decNext' = r
        BY <1>1
    <2> HIDE DEF r
    <2> QED BY <2>3, <2>4
<1>7. /\ recvNext' \in Decodes(call.rows)
      /\ Agrees(recvNext.books) =>
           /\ \A f \in Kinds : \A s \in 0 .. call.n[f] - 1 :
                 sent[f].roll.cb[s] = recvNext'.books[f][s]
           /\ \A b \in StripBlocks : mbs[b].kind # "Skip" =>
                 Paint(call.mode, recvNext'.books, mbs[b]) = Paint(call.mode, cb, mbs[b])
    <2>1. TypeOK /\ pc = "strips" /\ recvNext \in Decodes(call.rows)
        BY <1>2, <1>4 DEF EncInv
    <2>2. ~call.intra => recv.pic \in AnyPicture /\ recv.pic.rows = call.rows
        BY <1>5
    <2> DEFINE r == DecodeStrip(recvNext, sent, mbs, recv.pic)
    <2>3. /\ r \in Decodes(call.rows)
          /\ Agrees(recvNext.books) =>
               /\ \A f \in Kinds : \A s \in 0 .. call.n[f] - 1 :
                     sent[f].roll.cb[s] = r.books[f][s]
               /\ \A b \in StripBlocks : mbs[b].kind # "Skip" =>
                     Paint(call.mode, r.books, mbs[b]) = Paint(call.mode, cb, mbs[b])
        BY <2>1, <2>2, StripDecodes
    <2>4. recvNext' = r
        BY <1>1
    <2> HIDE DEF r
    <2> QED BY <2>3, <2>4
<1>8. \A f \in Kinds : rolling'[f] \in Roll /\ rolling'[f].n = call.n[f]
    BY <1>1, <1>2, SentIsSound DEF EncInv, EmitIsSound
<1>9. Sound => Agrees(decNext.books) /\ Agrees(recvNext.books)
    BY <1>2 DEF EncInv, RollingMatchesDecoders, DecNow, RecvNow, Agrees
<1>10. (intact /\ ~call.intra) => recv.pic = prev
    BY <1>2 DEF EncInv, InterHasPrev, SkipsAgainstShownPicture
<1>11. want' \in Picture(call.rows)
    <2>1. cb \in [Kinds -> Book] /\ call.mode \in Modes
        BY <1>3, EncoderAssumption DEF Books, Calls
    <2>2. ASSUME NEW b \in Blocks(call.rows), b \in StripBlocks
          PROVE  Meant(cb, mbs)[b] \in [Quads -> Entry]
        <3>1. DOMAIN want = Blocks(call.rows)
            BY <1>4 DEF Picture
        <3>2. CASE mbs[b].kind = "Skip"
            BY <1>5, <2>2, <3>1, <3>2, CodedBlock, PictureShape DEF Meant, Picture
        <3>3. CASE mbs[b].kind # "Skip"
            BY <2>1, <2>2, <3>1, <3>3, CodedBlock, PaintIsTyped DEF Meant
        <3> QED BY <3>2, <3>3
    <2> QED BY <1>1, <1>4, <2>2 DEF Meant, Picture
<1>12. TypeOK'
    <2>1. index' \in 0 .. call.rows /\ row' \in Nat
        BY <1>2, <1>3, PlanType
    <2>2. rolling' \in [Kinds -> Roll \cup {None}]
        BY <1>1, <1>8
    <2> QED BY <1>2, <1>3, <1>6, <1>7, <1>11, <2>1, <2>2 DEF EncInv, TypeOK
<1>13. InterHasPrev' /\ ReceiverFollows' /\ SkipsAgainstShownPicture'
    BY <1>2 DEF EncInv, InterHasPrev, ReceiverFollows, SkipsAgainstShownPicture
<1>14. RollingMatchesDecoders'
    <2>1. Sound' = Sound /\ DecNow' = decNext'.books /\ RecvNow' = recvNext'.books
        BY <1>2 DEF Sound, DecNow, RecvNow
    <2>2. \A f \in Kinds : rolling'[f] = sent[f].roll
        BY <1>1
    <2> QED BY <1>6, <1>7, <1>8, <1>9, <2>1, <2>2 DEF RollingMatchesDecoders
<1>15. ShowsWhatWasMeant'
    <2> SUFFICES ASSUME Sound PROVE recvNext'.px = want' /\ decNext'.px = want'
        BY <1>2 DEF ShowsWhatWasMeant, Sound
    <2>1. recvNext.px = want /\ decNext.px = want
        BY <1>2 DEF EncInv, ShowsWhatWasMeant
    <2>2. DOMAIN want = Blocks(call.rows)
        BY <1>4 DEF Picture
    <2>3. /\ want' = [b \in Blocks(call.rows) |-> want'[b]]
          /\ decNext'.px = [b \in Blocks(call.rows) |-> decNext'.px[b]]
          /\ recvNext'.px = [b \in Blocks(call.rows) |-> recvNext'.px[b]]
        BY <1>6, <1>7, <1>11 DEF Decodes, Picture
    <2>4. ASSUME NEW b \in Blocks(call.rows)
          PROVE  decNext'.px[b] = want'[b] /\ recvNext'.px[b] = want'[b]
        <3>1. CASE b \notin StripBlocks
            BY <1>1, <2>1, <2>2, <3>1 DEF DecodeStrip, Meant
        <3>2. CASE b \in StripBlocks /\ mbs[b].kind = "Skip"
            <4>1. recv.pic = prev
                BY <1>2, <1>10, <3>2, CodedBlock DEF Sound
            <4> QED BY <1>1, <2>1, <2>2, <3>2, <4>1 DEF DecodeStrip, Meant
        <3>3. CASE b \in StripBlocks /\ mbs[b].kind # "Skip"
            <4>1. want'[b] = Paint(call.mode, cb, mbs[b])
                BY <1>1, <2>2, <3>3 DEF Meant
            <4>2. /\ decNext'.px[b] = Paint(call.mode, decNext'.books, mbs[b])
                  /\ recvNext'.px[b] = Paint(call.mode, recvNext'.books, mbs[b])
                BY <1>1, <2>1, <2>2, <3>3 DEF DecodeStrip
            <4> QED BY <1>6, <1>7, <1>9, <3>3, <4>1, <4>2
        <3> QED BY <3>1, <3>2, <3>3
    <2> QED BY <2>3, <2>4
<1> QED BY <1>12, <1>13, <1>14, <1>15 DEF EncInv

\* The locals of a call that is not running are typed.
LEMMA NoDecodeType == NoDecode \in Decodes(0) /\ Blank(0) \in Picture(0)
BY BlankType, ZeroBookType DEF NoDecode, Decodes, Books, ZeroBooks

\* The start of a frame on typed books.
LEMMA StartFrameType ==
    ASSUME EncInv, NEW c \in Calls, NEW bs \in Books, StartFrame(c, bs),
           rolling' \in [Kinds -> Roll \cup {None}]
    PROVE  TypeOK'
<1>1. call' = c /\ c # None /\ pc' = "strips"
    <2>1. None \notin Calls
        BY EncoderAssumption
    <2> QED BY <2>1 DEF StartFrame
<1>2. /\ [books |-> bs, px |-> Blank(c.rows)] \in Decodes(c.rows)
      /\ [books |-> recv.books, px |-> Blank(c.rows)] \in Decodes(c.rows)
      /\ Blank(c.rows) \in Picture(c.rows)
    BY BlankType DEF Decodes, EncInv, TypeOK
<1>3. 0 \in 0 .. c.rows
    <2>1. c.rows \in Heights
        BY DEF Calls
    <2>2. c.rows \in Nat
        BY <2>1, EncoderAssumption
    <2> QED BY <2>2
<1>4. /\ index' = 0 /\ row' = 0
      /\ decNext' = [books |-> bs, px |-> Blank(c.rows)]
      /\ recvNext' = [books |-> recv.books, px |-> Blank(c.rows)]
      /\ want' = Blank(c.rows)
      /\ UNCHANGED <<prev, decBooks, recv, intact>>
    BY DEF StartFrame
<1>5. /\ prev' \in AnyPicture \cup {None} /\ decBooks' \in Books
      /\ recv' \in [books : Books, pic : AnyPicture \cup {None}] /\ intact' \in BOOLEAN
    BY <1>4 DEF EncInv, TypeOK
<1>6. /\ decNext' \in Decodes(c.rows) /\ recvNext' \in Decodes(c.rows)
      /\ want' \in Picture(c.rows) /\ index' \in 0 .. c.rows /\ row' \in Nat
    BY <1>2, <1>3, <1>4
<1> QED BY <1>1, <1>5, <1>6 DEF TypeOK

\* A keyframe begins with no records.
LEMMA BeginIntraPreserves ==
    ASSUME EncInv, BeginIntra
    PROVE  EncInv'
<1>1. PICK c \in Calls : c.intra /\ StartFrame(c, ZeroBooks)
    BY DEF BeginIntra
<1>2. rolling' = [f \in Kinds |-> None]
    BY DEF BeginIntra
<1>3. TypeOK'
    BY <1>1, <1>2, StartFrameType, ZeroBookType DEF Books, ZeroBooks
<1>4. InterHasPrev' /\ ReceiverFollows' /\ SkipsAgainstShownPicture'
    BY <1>1 DEF StartFrame, EncInv, InterHasPrev, ReceiverFollows, SkipsAgainstShownPicture
<1>5. RollingMatchesDecoders'
    BY <1>2 DEF RollingMatchesDecoders
<1>6. ShowsWhatWasMeant'
    BY <1>1 DEF StartFrame, ShowsWhatWasMeant
<1> QED BY <1>3, <1>4, <1>5, <1>6 DEF EncInv

\* An inter frame begins on what both decoders hold.
LEMMA BeginInterPreserves ==
    ASSUME EncInv, BeginInter
    PROVE  EncInv'
<1>1. PICK c \in Calls :
        ~c.intra /\ c.rows = prev.rows /\ c.mode = prev.fmt /\ StartFrame(c, decBooks)
    BY DEF BeginInter
<1>2. pc = "idle" /\ prev # None /\ rolling' = rolling
    BY DEF BeginInter
<1>3. TypeOK'
    BY <1>1, <1>2, StartFrameType DEF EncInv, TypeOK
<1>4. InterHasPrev' /\ ReceiverFollows' /\ SkipsAgainstShownPicture'
    BY <1>1, <1>2 DEF StartFrame, EncInv, InterHasPrev, ReceiverFollows, SkipsAgainstShownPicture
<1>5. RollingMatchesDecoders'
    BY <1>1, <1>2
    DEF StartFrame, EncInv, RollingMatchesDecoders, Sound, DecNow, RecvNow
<1>6. ShowsWhatWasMeant'
    BY <1>1 DEF StartFrame, ShowsWhatWasMeant
<1> QED BY <1>3, <1>4, <1>5, <1>6 DEF EncInv

\* A call that fails leaves an encoder that relies on nothing.
LEMMA AbandonPreserves ==
    ASSUME EncInv, Abandon, rolling' \in [Kinds -> Roll \cup {None}]
    PROVE  EncInv'
<1>1. TypeOK'
    <2>1. pc' = "idle" /\ call' = None /\ index' = 0 /\ row' = 0 /\ intact' \in BOOLEAN
        BY DEF Abandon, ClearWire
    <2>2. decNext' \in Decodes(0) /\ recvNext' \in Decodes(0) /\ want' \in Picture(0)
        BY NoDecodeType DEF Abandon, ClearWire
    <2>3. /\ prev' \in AnyPicture \cup {None} /\ decBooks' \in Books
          /\ recv' \in [books : Books, pic : AnyPicture \cup {None}]
        BY DEF Abandon, EncInv, TypeOK
    <2> QED BY <2>1, <2>2, <2>3 DEF TypeOK
<1>2. InterHasPrev' /\ ReceiverFollows' /\ SkipsAgainstShownPicture'
    BY DEF Abandon, EncInv, InterHasPrev, ReceiverFollows, SkipsAgainstShownPicture
<1>3. RollingMatchesDecoders' /\ ShowsWhatWasMeant'
    BY DEF Abandon, RollingMatchesDecoders, ShowsWhatWasMeant, Sound
<1> QED BY <1>1, <1>2, <1>3 DEF EncInv

\* A strip that is too long leaves an encoder that relies on nothing.
LEMMA StripTooBigPreserves ==
    ASSUME EncInv, StripTooBig
    PROVE  EncInv'
<1>1. PICK cb \in Books, mbs \in StripMbs, reclaimed \in SUBSET Reclaimable :
        rolling' = [f \in Kinds |-> Sent(cb, mbs, reclaimed)[f].roll]
    BY TrainedBooksType DEF StripTooBig
<1>2. \A f \in Kinds : Sent(cb, mbs, reclaimed)[f].roll \in Roll
    BY SentIsSound DEF EncInv, EmitIsSound, StripTooBig
<1> QED BY <1>1, <1>2, AbandonPreserves DEF StripTooBig

\* So does a frame that is too long.
LEMMA FrameTooBigPreserves ==
    ASSUME EncInv, FrameTooBig
    PROVE  EncInv'
BY AbandonPreserves DEF FrameTooBig, EncInv, TypeOK

\* The decoders take what they decoded, and the encoder the picture.
LEMMA DeliverPreserves ==
    ASSUME EncInv, Deliver
    PROVE  EncInv'
<1>1. /\ pc = "strips" /\ pc' = "idle" /\ call' = None /\ rolling' = rolling
      /\ prev' = [rows |-> call.rows, fmt |-> call.mode, px |-> decNext.px]
      /\ decBooks' = decNext.books
      /\ recv' = [books |-> recvNext.books,
                  pic |-> [rows |-> call.rows, fmt |-> call.mode, px |-> recvNext.px]]
      /\ intact' = Sound
    BY DEF Deliver, Sound
<1>2. call \in Calls /\ call # None /\ call.rows \in Heights /\ call.mode \in Modes
    BY <1>1, EncoderAssumption DEF EncInv, TypeOK, Calls
<1>3. /\ decNext.books \in Books /\ decNext.px \in Picture(call.rows)
      /\ recvNext.books \in Books /\ recvNext.px \in Picture(call.rows)
    BY <1>2 DEF EncInv, TypeOK, Decodes
<1>4. prev' \in AnyPicture /\ recv'.pic \in AnyPicture /\ recv'.pic.rows = prev'.rows
    BY <1>1, <1>2, <1>3, PictureOf
<1>5. recv' \in [books : Books, pic : AnyPicture \cup {None}]
    BY <1>1, <1>3, <1>4
<1>6. Sound \in BOOLEAN
    BY <1>2 DEF Sound, EncInv, TypeOK, Calls
<1>7. TypeOK'
    BY <1>1, <1>3, <1>4, <1>5, <1>6, NoDecodeType DEF Deliver, ClearWire, EncInv, TypeOK
<1>8. InterHasPrev'
    BY <1>1 DEF InterHasPrev
<1>9. ReceiverFollows'
    BY <1>4, EncoderAssumption DEF ReceiverFollows
<1>10. SkipsAgainstShownPicture'
    BY <1>1 DEF EncInv, ShowsWhatWasMeant, SkipsAgainstShownPicture
<1>11. RollingMatchesDecoders'
    BY <1>1 DEF EncInv, RollingMatchesDecoders, Sound, DecNow, RecvNow
<1>12. ShowsWhatWasMeant'
    BY <1>1 DEF ShowsWhatWasMeant
<1> QED BY <1>7, <1>8, <1>9, <1>10, <1>11, <1>12 DEF EncInv

\* A reset forgets the records and the picture together.
LEMMA ResetPreserves ==
    ASSUME EncInv, Reset
    PROVE  EncInv'
<1>1. TypeOK'
    BY ZeroBookType DEF Reset, wireVars, EncInv, TypeOK, Books, ZeroBooks
<1>2. InterHasPrev' /\ ReceiverFollows' /\ SkipsAgainstShownPicture'
    BY DEF Reset, InterHasPrev, ReceiverFollows, SkipsAgainstShownPicture
<1>3. RollingMatchesDecoders' /\ ShowsWhatWasMeant'
    BY DEF Reset, RollingMatchesDecoders, ShowsWhatWasMeant
<1> QED BY <1>1, <1>2, <1>3 DEF EncInv

\* A new encoder satisfies the invariant.
LEMMA InitEncInv == Init => EncInv
<1> SUFFICES ASSUME Init PROVE EncInv
    OBVIOUS
<1>1. TypeOK
    <2>1. decBooks \in Books /\ recv \in [books : Books, pic : AnyPicture \cup {None}]
        BY ZeroBookType DEF Init, Books, ZeroBooks
    <2> QED BY <2>1, NoDecodeType DEF Init, TypeOK
<1>2. InterHasPrev /\ ReceiverFollows /\ SkipsAgainstShownPicture
    BY DEF Init, InterHasPrev, ReceiverFollows, SkipsAgainstShownPicture
<1>3. RollingMatchesDecoders /\ ShowsWhatWasMeant
    BY DEF Init, RollingMatchesDecoders, ShowsWhatWasMeant
<1> QED BY <1>1, <1>2, <1>3 DEF EncInv

\* Every step preserves the invariant: one step of the proof per action.
LEMMA StepEncInv == EncInv /\ [Next]_vars => EncInv'
<1> SUFFICES ASSUME EncInv, [Next]_vars PROVE EncInv'
    OBVIOUS
<1>1. CASE UNCHANGED vars
    BY <1>1
    DEF vars, wireVars, EncInv, TypeOK, InterHasPrev, ReceiverFollows, RollingMatchesDecoders,
        SkipsAgainstShownPicture, ShowsWhatWasMeant, Sound, DecNow, RecvNow
<1> QED BY <1>1, BeginIntraPreserves, BeginInterPreserves, EncodeStripPreserves,
           StripTooBigPreserves, FrameTooBigPreserves, DeliverPreserves, ResetPreserves DEF Next

-----------------------------------------------------------------------------

\* The inductive invariant holds in every reachable state.
THEOREM EncoderInvariant == Spec => []EncInv
BY InitEncInv, StepEncInv, PTL DEF Spec

\* Type correctness, for every size of codebook, frame and strip plan.
THEOREM EncoderTypeCorrect == Spec => []TypeOK
<1>1. EncInv => TypeOK
    BY DEF EncInv
<1> QED BY <1>1, EncoderInvariant, PTL

\* What the encoder records of the codebooks is what the decoders hold, until
\* a call fails (RollingCodebooks, emit_codebook_chunk_one).
THEOREM EncoderKnowsTheDecoders == Spec => []RollingMatchesDecoders
<1>1. EncInv => RollingMatchesDecoders
    BY DEF EncInv
<1> QED BY <1>1, EncoderInvariant, PTL

\* The encoder skips against the picture that the receiver shows, also a
\* receiver whose codebooks were anything before the first keyframe
\* (encode_inter_one, self.prev_frame).
THEOREM EncoderSkipsAgainstShownPicture == Spec => []SkipsAgainstShownPicture
<1>1. EncInv => SkipsAgainstShownPicture
    BY DEF EncInv
<1> QED BY <1>1, EncoderInvariant, PTL

\* Omitted, header-only, selective and full chunks alike, what the receiver
\* decodes is what the encoder meant (encode_inter_strip_with_stats).
THEOREM ReceiverShowsWhatWasMeant == Spec => []ShowsWhatWasMeant
<1>1. EncInv => ShowsWhatWasMeant
    BY DEF EncInv
<1> QED BY <1>1, EncoderInvariant, PTL

-----------------------------------------------------------------------------
\* The strip plan.

\* Division with remainder, for a divisor no larger than the dividend.
LEMMA Division ==
    ASSUME NEW a \in Nat \ {0}, NEW n \in Nat \ {0}, n <= a
    PROVE  /\ a \div n \in Nat \ {0}
           /\ a % n \in 0 .. n - 1
           /\ a = n * (a \div n) + (a % n)
<1> DEFINE q == a \div n
           x == n * q
           y == a % n
<1>1. y = a - x
    OBVIOUS
<1>2. y \in 0 .. n - 1
    OBVIOUS
<1>3. q \in Nat
    OBVIOUS
<1>4. x \in Nat
    BY <1>3
<1>5. a = x + y
    <2> HIDE DEF x, y
    <2> QED BY <1>1, <1>2, <1>4
<1>6. q # 0
    BY <1>1, <1>2, <1>3
<1>7. q \in Nat \ {0}
    BY <1>3, <1>6
<1> QED BY <1>2, <1>5, <1>7, Zenon

\* The height of the first i of n strips of q rows of which r are a row higher.
Below(i, q, r) == i * q + (IF i < r THEN i ELSE r)

\* One more strip adds its height.
LEMMA BelowGrows ==
    ASSUME NEW i \in Nat, NEW q \in Nat \ {0}, NEW r \in Nat
    PROVE  /\ Below(i, q, r) \in Nat
           /\ Below(i + 1, q, r) = Below(i, q, r) + (q + (IF i < r THEN 1 ELSE 0))
<1>1. i * q \in Nat
    OBVIOUS
<1>2. (i + 1) * q = i * q + q
    OBVIOUS
<1> QED BY <1>1, <1>2 DEF Below

\* No strip at all has no height, some strips have, and no more than n strips
\* are as high as n strips.
LEMMA BelowBounds ==
    ASSUME NEW n \in Nat, NEW q \in Nat \ {0}, NEW r \in Nat, NEW i \in 0 .. n
    PROVE  /\ Below(0, q, r) = 0
           /\ i > 0 => Below(i, q, r) > 0
           /\ Below(i, q, r) <= Below(n, q, r)
<1>1. i * q \in Nat /\ n * q \in Nat /\ 0 * q = 0
    OBVIOUS
<1>2. i > 0 => i * q > 0
    OBVIOUS
<1>3. i * q <= n * q
    OBVIOUS
<1> QED BY <1>1, <1>2, <1>3 DEF Below

PlanInv ==
    pc = "strips" =>
        /\ index <= StripCount
        /\ row = Below(index, call.rows \div StripCount, call.rows % StripCount)

\* The division of the plan of a call.
LEMMA PlanDivides ==
    ASSUME NEW c \in Calls, NEW n, n = (IF c.strips > c.rows THEN c.rows ELSE c.strips)
    PROVE  /\ n \in Nat \ {0}
           /\ c.rows \div n \in Nat \ {0}
           /\ c.rows % n \in 0 .. n - 1
           /\ c.rows = Below(n, c.rows \div n, c.rows % n)
<1> DEFINE q == c.rows \div n
           r == c.rows % n
<1>1. c.rows \in Heights /\ c.strips \in Requests
    BY DEF Calls
<1>2. c.rows \in Nat \ {0} /\ c.strips \in Nat \ {0}
    BY <1>1, EncoderAssumption
<1>3. n \in Nat \ {0} /\ n <= c.rows
    BY <1>2
<1>4. q \in Nat \ {0} /\ r \in 0 .. n - 1 /\ c.rows = n * q + r
    BY <1>2, <1>3, Division
<1>5. c.rows = Below(n, q, r)
    <2> HIDE DEF q, r
    <2> QED BY <1>3, <1>4 DEF Below
<1> QED BY <1>3, <1>4, <1>5

\* The row of the strip cursor is the height of the strips before it.
LEMMA StepPlanInv == EncInv /\ PlanInv /\ [Next]_vars => PlanInv'
<1> SUFFICES ASSUME EncInv, PlanInv, [Next]_vars PROVE PlanInv'
    OBVIOUS
<1>1. CASE EncodeStrip
    <2> DEFINE n == StripCount
               q == call.rows \div StripCount
               r == call.rows % StripCount
    <2>1. pc = "strips" /\ call' = call /\ call \in Calls /\ index \in Nat
        BY <1>1 DEF EncodeStrip, EncInv, TypeOK
    <2>2. index < n /\ index' = index + 1 /\ row' = row + StripHeight /\ n' = n /\ q' = q /\ r' = r
        BY <1>1, <2>1 DEF EncodeStrip, StripCount
    <2>3. row = Below(index, q, r) /\ StripHeight = q + (IF index < r THEN 1 ELSE 0)
        BY <2>1 DEF PlanInv, StripHeight
    <2>4. n \in Nat \ {0} /\ q \in Nat \ {0} /\ r \in 0 .. n - 1
        BY <2>1, PlanDivides DEF StripCount
    <2> HIDE DEF n, q, r
    <2>5. index \in 0 .. n
        BY <2>1, <2>2, <2>4
    <2>6. Below(index, q, r) \in Nat
          /\ Below(index + 1, q, r) = Below(index, q, r) + (q + (IF index < r THEN 1 ELSE 0))
        <3>1. index \in Nat /\ q \in Nat \ {0} /\ r \in Nat
            BY <2>1, <2>4
        <3> QED BY ONLY <3>1, BelowGrows
    <2>7. row' = Below(index', q, r) /\ index' <= n
        BY <2>1, <2>2, <2>3, <2>4, <2>6
    <2> USE DEF n, q, r
    <2> QED BY <2>2, <2>7 DEF PlanInv
<1>2. CASE BeginIntra \/ BeginInter
    <2>1. PICK c \in Calls, bs \in Books : StartFrame(c, bs)
        BY <1>2, ZeroBookType DEF BeginIntra, BeginInter, ZeroBooks, Books, EncInv, TypeOK
    <2>2. call' \in Calls /\ index' = 0 /\ row' = 0
        BY <2>1 DEF StartFrame
    <2> DEFINE n == StripCount'
               q == (call.rows \div StripCount)'
               r == (call.rows % StripCount)'
    <2>3. n \in Nat \ {0} /\ q \in Nat \ {0} /\ r \in 0 .. n - 1
        BY <2>2, PlanDivides DEF StripCount
    <2>4. Below(0, q, r) = 0
        BY <2>3, BelowBounds
    <2> QED BY <2>2, <2>3, <2>4 DEF PlanInv
<1>3. CASE StripTooBig \/ FrameTooBig \/ Deliver \/ Reset
    BY <1>3 DEF StripTooBig, FrameTooBig, Abandon, Deliver, Reset, PlanInv
<1>4. CASE UNCHANGED vars
    BY <1>4 DEF vars, wireVars, PlanInv, StripCount
<1> QED BY <1>1, <1>2, <1>3, <1>4 DEF Next

\* The invariant of the cursor gives the tiling.
LEMMA PlanTiles == EncInv /\ PlanInv => StripsTileTheFrame
<1> SUFFICES ASSUME EncInv, PlanInv, pc = "strips"
             PROVE  /\ index < StripCount => (row + StripHeight <= call.rows /\ StripHeight > 0)
                    /\ index > 0 => row > 0
                    /\ index = StripCount => row = call.rows
    BY DEF StripsTileTheFrame
<1> DEFINE n == StripCount
           q == call.rows \div StripCount
           r == call.rows % StripCount
<1>1. call \in Calls /\ index \in Nat /\ index <= n
    BY DEF EncInv, TypeOK, PlanInv
<1>2. n \in Nat \ {0} /\ q \in Nat \ {0} /\ r \in 0 .. n - 1 /\ call.rows = Below(n, q, r)
    BY <1>1, PlanDivides DEF StripCount
<1>3. row = Below(index, q, r) /\ StripHeight = q + (IF index < r THEN 1 ELSE 0)
    BY DEF PlanInv, StripHeight
<1> HIDE DEF n, q, r
<1>4. index \in 0 .. n
    BY <1>1, <1>2
<1>5. /\ index > 0 => row > 0
      /\ index = n => row = call.rows
    BY <1>2, <1>3, <1>4, BelowBounds
<1>6. ASSUME index < n
      PROVE  row + StripHeight <= call.rows /\ StripHeight > 0
    <2>1. index + 1 \in 0 .. n
        BY <1>2, <1>4, <1>6
    <2>5. index \in Nat /\ q \in Nat \ {0} /\ r \in Nat
        BY <1>1, <1>2
    <2>2. Below(index + 1, q, r) <= Below(n, q, r)
        BY <1>2, <2>1, BelowBounds
    <2>3. Below(index + 1, q, r) = Below(index, q, r) + (q + (IF index < r THEN 1 ELSE 0))
        BY ONLY <2>5, BelowGrows
    <2>4. Below(index, q, r) \in Nat
        BY ONLY <2>5, BelowGrows
    <2> QED BY <1>2, <1>3, <2>2, <2>3, <2>4
<1> USE DEF n
<1> QED BY <1>5, <1>6

\* The strips of every plan tile their frame, for every height and every
\* requested number of strips (plan_strips).
THEOREM EncoderStripsTileTheFrame == Spec => []StripsTileTheFrame
<1>1. Init => PlanInv
    BY DEF Init, PlanInv
<1> QED BY <1>1, StepPlanInv, PlanTiles, EncoderInvariant, PTL DEF Spec

=============================================================================
