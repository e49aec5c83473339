------------------------------ MODULE PMTiles ------------------------------
(***************************************************************************)
(* The PMTiles v3 format as internal/pmtiles reads it (tileid.go,          *)
(* directory.go, reader.go) and as internal/pmtiles/pmtilestest writes it. *)
(* No state: operators on archives.                                        *)
(*                                                                         *)
(* A tile's payload is a sequence of bytes.  An encoded directory is a     *)
(* sequence of rows, one unit long each, that hold what the columns of the *)
(* file hold; varints and compression are left out, so offsets, lengths    *)
(* and limits of directories count rows.  The magic, the version, the tile *)
(* type and the compressions that a header declares are left out as well.  *)
(***************************************************************************)
EXTENDS Integers, Sequences, SequencesExt, FiniteSetsExt

CONSTANTS
  MaxTileSize,  \* maxTileSize
  MaxBlock,     \* maxDecodedBlock
  MaxColumn     \* 0xFFFFFFFF: run lengths and lengths are 32 bits wide

ASSUME FormatAssumption ==
  /\ MaxTileSize \in Nat \ {0} /\ MaxBlock \in Nat \ {0} /\ MaxColumn \in Nat \ {0}
  /\ MaxBlock <= MaxColumn

MaxLeafDepth == 3   \* maxLeafDepth
HeaderSize   == 1   \* HeaderSize, in units
MaxZoom      == 31  \* MaxZoom

\* A loop of n turns from state s0.
Loop(Turn(_, _), s0, n) ==
  LET s[i \in 0..n] == IF i = 0 THEN s0 ELSE Turn(s[i - 1], i) IN s[n]

----------------------------------------------------------------------------
(* tileid.go.                                                              *)

\* 1 << k: 1, doubled k times.
Shl(k) == LET Double(a, i) == 2 * a IN Loop(Double, 1, k)

\* Tiles of all zoom levels below z.
Before(z) == LET Add(acc, i) == acc + Shl(2 * (i - 1)) IN Loop(Add, 0, z)

Bit(v, s) == (v \div s) % 2

\* (3 * rx) ^ ry
Quadrant(rx, ry) == IF ry = 0 THEN 3 * rx ELSE 2 - (1 - rx)

\* Mutant: the quadrant's curve is mirrored and not turned.
MirrorOnly(n, p, rx, ry) == IF ry = 0 /\ rx = 1 THEN <<n - 1 - p[1], n - 1 - p[2]>> ELSE p
Rotate(n, p, rx, ry) ==
  CASE ry = 1            -> p
    [] ry = 0 /\ rx = 0  -> <<p[2], p[1]>>
    [] ry = 0 /\ rx = 1  -> <<n - 1 - p[2], n - 1 - p[1]>>

ZXYToID(z, x, y) ==
  LET Turn(a, i) ==
        LET s  == Shl(z - i)
            rx == Bit(a.at[1], s)
            ry == Bit(a.at[2], s)
        IN [at |-> Rotate(Shl(z), a.at, rx, ry), d |-> a.d + s * s * Quadrant(rx, ry)]
  IN Before(z) + Loop(Turn, [at |-> <<x, y>>, d |-> 0], z).d

IDToZXY(id) ==
  LET z == CHOOSE l \in 0..id : Before(l) <= id /\ id < Before(l + 1)
      Turn(a, i) ==
        LET s  == Shl(i - 1)
            rx == (a.t \div 2) % 2
            ry == (a.t + rx) % 2
            p  == Rotate(s, a.at, rx, ry)
        IN [at |-> <<p[1] + s * rx, p[2] + s * ry>>, t |-> a.t \div 4]
  IN <<z>> \o Loop(Turn, [at |-> <<0, 0>>, t |-> id - Before(z)], z).at

\* On zoom level z the tiles and a range of ids are in bijection, IDToZXY is the inverse of
\* ZXYToID, and ids one apart are neighbours: a Hilbert curve.
FillsTheCurve(z) ==
  LET side == 0..(Shl(z) - 1)
      ids  == Before(z)..(Before(z + 1) - 1)
      Apart(a, b) == IF a <= b THEN b - a ELSE a - b
      Distance(t, u) == Apart(t[2], u[2]) + Apart(t[3], u[3])
  IN /\ {ZXYToID(z, i, j) : i, j \in side} = ids
     /\ \A i, j \in side : IDToZXY(ZXYToID(z, i, j)) = <<z, i, j>>
     /\ \A id \in ids : id + 1 \in ids => Distance(IDToZXY(id), IDToZXY(id + 1)) = 1

----------------------------------------------------------------------------
(* Directories: sequences of entries [id, off, len, run], sorted by id.    *)

Entry(id, off, len, run) == [id |-> id, off |-> off, len |-> len, run |-> run]
NoEntry == Entry(-1, 0, 0, 0)   \* an id no tile has

Follows(es, i) == i > 1 /\ es[i].off = es[i - 1].off + es[i - 1].len

\* build.go, encode: ids as differences, offset 0 for "directly after the previous one".
Encode(es) ==
  [i \in 1..Len(es) |->
     [delta |-> IF i = 1 THEN es[i].id ELSE es[i].id - es[i - 1].id,
      run |-> es[i].run, len |-> es[i].len,
      pos |-> IF Follows(es, i) THEN 0 ELSE es[i].off + 1]]

\* The columns are unsigned.
Rows == [delta : Nat, run : Nat, len : Nat, pos : Nat]

\* directory.go, decompress and parseDirectory: neither a block nor a column is too large, and
\* the first offset cannot refer to a predecessor.
WellFormed(rows) ==
  /\ Len(rows) <= MaxBlock
  /\ \A i \in DOMAIN rows : rows[i].run <= MaxColumn /\ rows[i].len <= MaxColumn
  /\ rows # <<>> => rows[1].pos # 0

NextOffset(rows, off, i) == IF rows[i].pos = 0 THEN off ELSE rows[i].pos - 1

Parse(rows) ==
  LET Turn(a, i) ==
        LET id  == a.id + rows[i].delta
            off == NextOffset(rows, a.off, i)
        IN [id |-> id, off |-> off + rows[i].len,
            es |-> Append(a.es, Entry(id, off, rows[i].len, rows[i].run))]
  IN Loop(Turn, [id |-> 0, off |-> 0, es |-> <<>>], Len(rows)).es

UpTo(d, id)   == {i \in DOMAIN d : d[i].id <= id}
Covers(e, id) == e.run = 0 \/ id < e.id + e.run

\* directory.go, find: the last entry with TileID <= id, if it is a leaf or its run holds id.
Find(d, id) ==
  LET found == {d[i] : i \in {j \in UpTo(d, id) : Covers(d[j], id) /\ \A l \in UpTo(d, id) : l <= j}}
  IN IF found = {} THEN NoEntry ELSE CHOOSE e \in found : TRUE

\* The checks of readTile and leaf on an entry: the length of its section, and what is too large.
Inside(e, length, most) ==
  e.len # 0 /\ e.len <= most /\ e.off <= length /\ e.len <= length - e.off

TileInside(e, h) == Inside(e, h.dataLen, MaxTileSize)
LeafInside(e, h) == Inside(e, h.leafLen, MaxBlock)

Part(section, e) == SubSeq(section, e.off + 1, e.off + e.len)

----------------------------------------------------------------------------
(* build.go, Build: tiles is a function from tile ids to payloads.         *)

\* Mutant: a run goes on after a gap.
AfterAny(last, id)  == TRUE
Continues(last, id) == last.id + last.run = id

TileEntries(tiles, runLengths) ==
  LET Turn(a, i) ==
        LET id   == i - 1
            last == a.es[Len(a.es)]
        IN CASE id \notin DOMAIN tiles -> a
             [] /\ id \in DOMAIN tiles /\ runLengths /\ a.es # <<>>
                /\ Continues(last, id) /\ tiles[id] = Part(a.data, last) ->
                  [a EXCEPT !.es[Len(a.es)].run = @ + 1]
             [] OTHER ->
                  [es |-> Append(a.es, Entry(id, Len(a.data), Len(tiles[id]), 1)),
                   data |-> a.data \o tiles[id]]
  IN Loop(Turn, [es |-> <<>>, data |-> <<>>], Max(DOMAIN tiles) + 1)

\* One turn of the loop that moves a level too large for one directory into leaves.
SplitLevel(a, leafSize) ==
  LET n == Len(a.level)
      chunk(j) == SubSeq(a.level, (j - 1) * leafSize + 1, Min({j * leafSize, n}))
      Write(b, j) ==
        [level |-> Append(b.level, Entry(chunk(j)[1].id, Len(b.leaves), Len(chunk(j)), 0)),
         leaves |-> b.leaves \o Encode(chunk(j))]
  IN Loop(Write, [level |-> <<>>, leaves |-> a.leaves], (n + leafSize - 1) \div leafSize)

\* The file: header, root directory, leaf directories, tile data; no metadata.
Header(rootLen, leafLen, dataLen, zooms) ==
  [rootLen |-> rootLen, leafLen |-> leafLen, dataLen |-> dataLen,
   minZoom |-> Min(zooms), maxZoom |-> Max(zooms)]

\* leafSize 0 keeps everything in the root; otherwise it is at least 2, or Build never ends.
Build(tiles, leafSize, runLengths) ==
  LET t == TileEntries(tiles, runLengths)
      Turn(a, i) == IF leafSize > 0 /\ Len(a.level) > leafSize THEN SplitLevel(a, leafSize) ELSE a
      top  == Loop(Turn, [level |-> t.es, leaves |-> <<>>], Len(t.es))
      root == Encode(top.level)
  IN <<Header(Len(root), Len(top.leaves), Len(t.data), {IDToZXY(id)[1] : id \in DOMAIN tiles})>>
     \o root \o top.leaves \o t.data

RootOffset(h) == HeaderSize
LeafOffset(h) == HeaderSize + h.rootLen
DataOffset(h) == LeafOffset(h) + h.leafLen

\* reader.go, Open: every section lies inside the file.
Complete(h, size) == DataOffset(h) + h.dataLen <= size

----------------------------------------------------------------------------
(* reader.go, Tile, over a whole file that Open has accepted.              *)

Bytes(file, off, n) == [i \in 1..n |-> file[off + i]]

\* The directory that e points at; NoEntry stands for the root.
DirectoryAt(file, e) ==
  LET h == file[1] IN
  Parse(IF e = NoEntry THEN Bytes(file, RootOffset(h), h.rootLen)
        ELSE Bytes(file, LeafOffset(h) + e.off, e.len))

\* Open accepts the root directory.
RootOpens(file) ==
  LET h == file[1] IN h.rootLen \in 1..MaxBlock /\ WellFormed(Bytes(file, RootOffset(h), h.rootLen))

Leaves(es) == {e \in Range(es) : e.run = 0}
Deeper(file, S) == S \cup UNION {Leaves(DirectoryAt(file, e)) : e \in S}

\* The entries for leaf directories that a lookup meets: in the root and MaxLeafDepth below.
LeafEntries(file) == Deeper(file, Deeper(file, Deeper(file, Leaves(DirectoryAt(file, NoEntry)))))

Found(payload) == [out |-> "tile", payload |-> payload]
Outcome(word)  == [out |-> word, payload |-> <<>>]

\* One turn of Tile's loop: w.dir is the directory the lookup is in.
Visit(file, id, w) ==
  LET h == file[1]
      e == Find(w.dir, id)
      rows == Bytes(file, LeafOffset(h) + e.off, e.len)
  IN CASE w.res.out # "going" -> w
       [] w.res.out = "going" /\ e = NoEntry -> [w EXCEPT !.res = Outcome("none")]
       [] w.res.out = "going" /\ e.run > 0 /\ TileInside(e, h) ->
            [w EXCEPT !.res = Found(Bytes(file, DataOffset(h) + e.off, e.len))]
       [] w.res.out = "going" /\ e # NoEntry /\ e.run = 0 /\ LeafInside(e, h)
          /\ WellFormed(rows) -> [w EXCEPT !.dir = Parse(rows)]
       [] OTHER -> [w EXCEPT !.res = Outcome("error")]

Lookup(file, id) ==
  LET Turn(w, depth) == Visit(file, id, w)
      end == Loop(Turn, [dir |-> DirectoryAt(file, NoEntry), res |-> Outcome("going")], MaxLeafDepth + 1).res
  IN IF end.out = "going" THEN Outcome("error") ELSE end
=============================================================================
