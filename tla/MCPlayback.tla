------------------------------ MODULE MCPlayback ------------------------------
(***************************************************************************)
(* Files with tables of up to three rows in any order, and one table       *)
(* behind headers with each field that the parsers look at out of order,   *)
(* cut off at every boundary.  Info words have three bits, so time stamps  *)
(* run from 0 to 3 and an inter frame at 3 reads as audio.                 *)
(***************************************************************************)
EXTENDS Playback

Row(info1, info2) == [offset |-> 0, length |-> 4, info1 |-> info1, info2 |-> info2]

\* Keyframes at 0 and 2, inter frames at 1 and 2, audio.
MCRows == {Row(0, 1), Row(2, 1), Row(5, 2), Row(6, 7), Row(7, 1)}

MCTables == BoundedSeq(MCRows, 3)

FullSize(f) == HeaderSize + f.fdscLength + HeaderSize + RowSize * Len(f.rows)

Whole(f) == f @@ [size |-> FullSize(f)]

Plain(t) ==
    [film |-> TRUE, headerLength |-> 80, version |-> "ascii", fdsc |-> TRUE, fdscLength |-> 32,
     codec |-> "cvid", channels |-> 0, bits |-> 0, compression |-> 0, rate |-> 0,
     stab |-> TRUE, stabLength |-> 16 * Len(t), base |-> 30, entries |-> Len(t), rows |-> t]

MCTable == <<Row(0, 1), Row(7, 2)>>

\* Headers in which something is wrong, or unusual.
MCHeaders ==
    LET p == Plain(MCTable) IN
    {p, [p EXCEPT !.film = FALSE], [p EXCEPT !.headerLength = 15], [p EXCEPT !.fdsc = FALSE],
     [p EXCEPT !.fdscLength = 20], [p EXCEPT !.fdscLength = 24], [p EXCEPT !.stab = FALSE],
     [p EXCEPT !.entries = 1], [p EXCEPT !.entries = 3], [p EXCEPT !.stabLength = 99],
     [p EXCEPT !.codec = "sega"], [p EXCEPT !.version = "null"]}

\* Each of them whole, and cut off at or just before a boundary.
MCBroken ==
    {[f EXCEPT !.size = s] : f \in {Whole(h) : h \in MCHeaders},
                             s \in {0, 15, 16, 23, 24, 35, 36, 47, 48, 63, 64, 79, 80, 95, 96}}
        \cup {Whole(h) : h \in MCHeaders}

\* The audio formats, in front of one table.
MCAudio ==
    {Whole([Plain(MCTable) EXCEPT !.version = v, !.channels = c, !.bits = b,
                                  !.compression = k, !.rate = r]) :
        v \in {"ascii", "null"}, c \in {1, 2, 3}, b \in {8, 12, 16}, k \in {0, 2, 3},
        r \in {0, 2}}

MCFiles == {Whole(Plain(t)) : t \in MCTables} \cup MCBroken \cup MCAudio

MCBytes == {1, 127, 129}

MCChunks == BoundedSeq(MCBytes, 4) \cup [1 .. 8 -> {0, 129}]

=============================================================================
