------------------------------- MODULE SdStorage -------------------------------
(***************************************************************************)
(* The SD library of a sketch: SDClass over the directory trees that the   *)
(* board's cards are, and the Files it opens.                              *)
(*                                                                         *)
(* A File holds a std::fstream, whose rules the library relies on and are  *)
(* modelled from its use: one position for reading and writing, which may  *)
(* be moved past the end; the flags eof, fail and bad; and a "sentry" that *)
(* refuses every transfer, and tellg, when a flag is up.                   *)
(***************************************************************************)
EXTENDS Integers, Sequences, SequencesExt, FiniteSets

CONSTANTS
    Cards,     \* BoardConfig::sd_cards: the select pins that have a card
    Pins,      \* bound: the pins begin() is called with; the default pin is 0
    Handles,   \* bound: the File variables of the sketch
    Paths,     \* bound: the paths used, sequences of names
    Bytes,     \* bound: the bytes written; 0 fills the gap a seek left
    MaxLen,    \* bound: no write starts at or after this position
    MaxFiles   \* bound: files that exist or are open at a time

ASSUME SdAssumption ==
    /\ Cards \subseteq Nat /\ Bytes \subseteq Nat /\ MaxLen \in Nat /\ MaxFiles \in Nat
    /\ \A q \in Paths : /\ q \in Seq(Range(q)) /\ q # <<>>
                        /\ \A n \in 1..Len(q) : SubSeq(q, 1, n) \in Paths

Cwd == -1      \* an empty root: paths are relative to the process
Places == Cards \cup {Cwd}
Files == 1..MaxFiles
Dir == 0       \* what a directory is in a tree, instead of the number of a file

VARIABLES
    sd,        \* SDClass: m_begun, m_cspin; history: the last begin()
    tree,      \* tree[place]: its paths, each Dir or the number of a file
    data,      \* data[i]: the contents of file i, also once it has no path
    file       \* file[h]: what a File variable holds

vars == <<sd, tree, data, file>>

NotOpened == [kind |-> "none"]
Directory(place, path, left) ==
    [kind |-> "dir", place |-> place, path |-> path, left |-> left]
Stream(i, in, out) ==
    [kind |-> "file", i |-> i, in |-> in, out |-> out, pos |-> 0,
     eof |-> FALSE, fail |-> FALSE, bad |-> FALSE,
     from |-> 0, got |-> <<>>, skip |-> 0]

Init ==
    /\ sd = [begun |-> FALSE, cspin |-> 0, asked |-> 0, noDevice |-> FALSE]
    /\ tree = [p \in Places |-> <<>>]
    /\ data = [i \in Files |-> <<>>]
    /\ file = [h \in Handles |-> NotOpened]

-----------------------------------------------------------------------------
(* The card and the tree.                                                  *)

StorageGetRoot(accessor) == IF accessor \in Cards THEN accessor ELSE Cwd
Root == StorageGetRoot(sd.cspin)

\* begin() asks for the root of the pin it had before.
Begin(cspin) ==
    /\ sd' = [sd EXCEPT !.asked = cspin,
                 !.noDevice = ~sd.begun /\ Root = Cwd,    \* begin() says so
                 !.cspin = IF sd.begun \/ Root = Cwd THEN @ ELSE cspin,
                 !.begun = @ \/ Root # Cwd]
    /\ UNCHANGED <<tree, data, file>>

Exists(path) == path \in DOMAIN tree[Root]
IsDirectory(path) == Exists(path) /\ tree[Root][path] = Dir
IsFile(path) == Exists(path) /\ ~IsDirectory(path)
Parent(path) == Front(path)
Ancestors(path) == {SubSeq(path, 1, n) : n \in 1..(Len(path) - 1)}
HasParent(path) == Parent(path) = <<>> \/ IsDirectory(Parent(path))
Inside(path) == {q \in DOMAIN tree[Root] : IsStrictPrefix(path, q)}
Children(path) == {q \in Inside(path) : Len(q) = Len(path) + 1}

\* What a directory_iterator is given when it opens a directory (a small one is read
\* in one go): the names, each with the type its directory_entry remembers.
Entries(path) ==
    {[path |-> q, dir |-> tree[Root][q] = Dir] : q \in Children(path)}

With(t, path, what) ==
    [q \in DOMAIN t \cup {path} |-> IF q = path THEN what ELSE t[q]]
WithDirs(t, paths) ==
    [q \in DOMAIN t \cup paths |-> IF q \in DOMAIN t THEN t[q] ELSE Dir]
Without(t, gone) == [q \in DOMAIN t \ gone |-> t[q]]

RemoveFile(path) ==
    /\ ~IsDirectory(path)
    /\ tree' = [tree EXCEPT ![Root] = Without(@, {path})]
    /\ UNCHANGED <<sd, data, file>>

\* create_directories: all missing parents; it throws if one of them is a file.
Mkdir(path) ==
    /\ ~Exists(path)
    /\ \A p \in Ancestors(path) : ~IsFile(p)
    /\ tree' = [tree EXCEPT ![Root] = WithDirs(@, Ancestors(path) \cup {path})]
    /\ UNCHANGED <<sd, data, file>>

\* A variant of Rmdir: what is in the directory is not removed.
Rmdir_Shallow(path) ==
    /\ IsDirectory(path)
    /\ tree' = [tree EXCEPT ![Root] = Without(@, {path})]
    /\ UNCHANGED <<sd, data, file>>

Rmdir(path) ==
    /\ IsDirectory(path)
    /\ tree' = [tree EXCEPT ![Root] = Without(@, {path} \cup Inside(path))]
    /\ UNCHANGED <<sd, data, file>>

-----------------------------------------------------------------------------
(* Opening.  The mode is a set of FILE_READ ("r") and FILE_WRITE ("w").    *)

Modes == SUBSET {"r", "w"}
OpenedElsewhere(path) ==    \* bound: a file is open through one handle at a time
    \E h \in Handles : file[h].kind = "file" /\ file[h].i = tree[Root][path]

\* A file lives on without a path while it is open.
InUse(i) == \/ \E p \in Places : i \in Range(tree[p])
            \/ \E h \in Handles : file[h].kind = "file" /\ file[h].i = i

\* "w" alone creates or truncates, "r" and "rw" take what is there, no mode at
\* all is refused.  A stream that does not open leaves the File not opened.  The
\* File is variable h of files.
OpenFile(files, h, path, mode) ==
    IF IsFile(path) /\ mode # {}
    THEN LET i == tree[Root][path] IN
         /\ ~OpenedElsewhere(path)
         /\ data' = IF mode = {"w"} THEN [data EXCEPT ![i] = <<>>] ELSE data
         /\ file' = [files EXCEPT ![h] = Stream(i, "r" \in mode, "w" \in mode)]
         /\ UNCHANGED tree
    ELSE IF ~Exists(path) /\ mode = {"w"} /\ HasParent(path)
    THEN \E i \in Files :
         /\ ~InUse(i)
         /\ data' = [data EXCEPT ![i] = <<>>]
         /\ tree' = [tree EXCEPT ![Root] = With(@, path, i)]
         /\ file' = [files EXCEPT ![h] = Stream(i, FALSE, TRUE)]
    ELSE file' = [files EXCEPT ![h] = NotOpened] /\ UNCHANGED <<tree, data>>

Open(h, path, mode) ==
    /\ IF path = <<>> \/ IsDirectory(path)
       THEN /\ file' = [file EXCEPT ![h] = Directory(Root, path, Entries(path))]
            /\ UNCHANGED <<tree, data>>
       ELSE OpenFile(file, h, path, mode)
    /\ UNCHANGED sd

\* bound: a directory is used while the root it was opened under is that of SD.
Listing(h) == file[h].kind = "dir" /\ file[h].place = Root

\* The next entry e is consumed, then opened into g as what it was when it was
\* listed.  A file that was removed since is made again by "w" alone.
\* bound: no directory that took the place of the file is opened for reading.
NextFile(h, g, e, mode) ==
    /\ ~e.dir /\ (IsDirectory(e.path) => mode # {"r"})
    /\ OpenFile([file EXCEPT ![h].left = @ \ {e}], g, e.path, mode)

\* The iterator of a directory that is none any more throws: g stays as it is.
NextDirectory(h, g, e) ==
    LET rest == [file EXCEPT ![h].left = @ \ {e}] IN
    /\ e.dir
    /\ file' = IF IsDirectory(e.path)
               THEN [rest EXCEPT ![g] = Directory(Root, e.path, Entries(e.path))]
               ELSE rest
    /\ UNCHANGED <<tree, data>>

OpenNextFile(h, g, mode) ==
    /\ Listing(h)
    /\ \E e \in file[h].left : NextFile(h, g, e, mode) \/ NextDirectory(h, g, e)
    /\ UNCHANGED sd

RewindDirectory(h) ==
    /\ Listing(h)
    /\ file[h].path = <<>> \/ IsDirectory(file[h].path)    \* else it throws
    /\ file' = [file EXCEPT ![h].left = Entries(file[h].path)]
    /\ UNCHANGED <<sd, tree, data>>

Close(h) == /\ file' = [file EXCEPT ![h] = NotOpened]
            /\ UNCHANGED <<sd, tree, data>>

-----------------------------------------------------------------------------
(* std::fstream.                                                           *)

Good(f) == ~f.eof /\ ~f.fail /\ ~f.bad
Failed(f) == f.fail \/ f.bad
Content(f) == data[f.i]

Tellg(f) == IF Good(f) THEN f.pos ELSE -1
Told(f) == IF Good(f) THEN f ELSE [f EXCEPT !.fail = TRUE]
Seekg(f, p) == IF Failed(f) THEN [f EXCEPT !.eof = FALSE]
               ELSE [f EXCEPT !.eof = FALSE, !.pos = p]
Seekp(f, p) == IF Failed(f) THEN f ELSE [f EXCEPT !.pos = p]

\* How many of n bytes a read finds.
Available(f, n) ==
    LET left == Len(Content(f)) - f.pos IN
    IF ~Good(f) \/ ~f.in \/ left <= 0 THEN 0 ELSE IF left < n THEN left ELSE n

Taken(f, n) ==    \* the stream after read(n) or get()
    IF Available(f, n) = n THEN [f EXCEPT !.pos = @ + n]
    ELSE [f EXCEPT !.pos = @ + Available(f, n), !.fail = TRUE, !.eof = @ \/ Good(f)]

Put(c, p, byte) ==    \* c with byte at position p, counted from 0
    [n \in 1..(IF p < Len(c) THEN Len(c) ELSE p + 1) |->
        IF n = p + 1 THEN byte ELSE IF n <= Len(c) THEN c[n] ELSE 0]

-----------------------------------------------------------------------------
(* File.  Every operation that the code refuses on a File that is not      *)
(* opened, or is a directory, returns 0 and is no step.                    *)

IsStream(h) == file[h].kind = "file"
Becomes(h, f) == file' = [file EXCEPT ![h] = f]
Fresh(f) ==    \* the history starts anew
    [f EXCEPT !.from = f.pos, !.got = <<>>, !.skip = 0]

\* The next n bytes, each with its position.
Block(f, n) == [j \in 1..n |-> [at |-> f.pos + j - 1, byte |-> Content(f)[f.pos + j]]]

\* What size() returns, an unsigned long of which -1 is the largest, and leaves.
Size(f) == IF Good(f) THEN Len(Content(f)) ELSE -1
Sized(f) == Told(f)

\* position(), size() and available() are not const: they may raise fail.
Position(h) == IsStream(h) /\ Becomes(h, Told(file[h])) /\ UNCHANGED <<sd, tree, data>>
AvailableCount(f) == Size(f) - Tellg(Sized(f))

\* A variant of Seek: the flags are cleared first, as an Arduino user expects.
Seek_Clears(h, p) ==
    /\ IsStream(h)
    /\ Becomes(h, Fresh([file[h] EXCEPT !.eof = FALSE, !.fail = FALSE, !.pos = p]))
    /\ UNCHANGED <<sd, tree, data>>

Seek(h, p) ==
    LET f == file[h] IN
    /\ IsStream(h)
    /\ IF Size(f) # -1 /\ p > Size(f)
       THEN Becomes(h, Sized(f))
       ELSE Becomes(h, Fresh(Seekp(Seekg(Sized(f), p), p)))
    /\ UNCHANGED <<sd, tree, data>>

Peek(h) ==
    LET f == file[h] IN
    /\ IsStream(h)
    /\ Becomes(h, IF ~Good(f) THEN [f EXCEPT !.fail = TRUE]
                  ELSE [f EXCEPT !.eof = (Available(f, 1) = 0)])
    /\ UNCHANGED <<sd, tree, data>>

\* A variant of Read: the position is moved at every read, not at the end only.
Read_Moves(h) ==
    LET f == Taken(file[h], 1)  n == Available(file[h], 1) IN
    /\ IsStream(h)
    /\ Becomes(h, [Seekp(f, f.pos + 1) EXCEPT !.got = @ \o Block(file[h], n)])
    /\ UNCHANGED <<sd, tree, data>>

\* read(): the seekp at the end of the file comes too late, the stream has failed.
Read(h) ==
    LET f == Taken(file[h], 1)  n == Available(file[h], 1) IN
    /\ IsStream(h)
    /\ Becomes(h, [IF n = 0 THEN Seekp(f, f.pos + 1) ELSE f EXCEPT
                    !.got = @ \o Block(file[h], n)])
    /\ UNCHANGED <<sd, tree, data>>

\* read(buffer, size): the one position has moved with the read and is moved by as
\* much again, past bytes that nobody reads, unless the stream has failed.
ReadMany(h, size) ==
    LET f == Taken(file[h], size)
        n == Available(file[h], size)
        g == Seekp(f, f.pos + n)
    IN
    /\ IsStream(h)
    /\ Becomes(h, [g EXCEPT !.got = @ \o Block(file[h], n),
                            !.skip = @ + (g.pos - f.pos)])
    /\ UNCHANGED <<sd, tree, data>>

\* write(c) and write(buffer, 1): only bad is looked at, so that a stream that is
\* merely failed or at its end writes nothing and reports success.  Whether such
\* a write raises fail is left to the library.
Write(h, c) ==
    LET f == file[h] IN
    /\ IsStream(h) /\ f.pos < MaxLen
    /\ IF Good(f) /\ f.out
       THEN /\ data' = [data EXCEPT ![f.i] = Put(@, f.pos, c)]
            /\ Becomes(h, Fresh(Seekg([f EXCEPT !.pos = @ + 1], f.pos + 2)))
       ELSE /\ UNCHANGED data
            /\ IF Good(f) THEN Becomes(h, Fresh([f EXCEPT !.bad = TRUE]))
               ELSE \E flagged \in BOOLEAN :
                       LET g == [f EXCEPT !.fail = @ \/ flagged] IN
                       Becomes(h, Fresh(IF g.bad THEN g ELSE Seekg(g, g.pos + 1)))
    /\ UNCHANGED <<sd, tree>>

-----------------------------------------------------------------------------
CardCalls ==
    \/ \E p \in Pins : Begin(p)
    \/ \E q \in Paths : RemoveFile(q) \/ Mkdir(q) \/ Rmdir(q)
    \/ \E h \in Handles, q \in Paths \cup {<< >>}, mode \in Modes : Open(h, q, mode)

FileCalls ==
    \E h \in Handles :
        \/ \E g \in Handles, mode \in Modes : OpenNextFile(h, g, mode)
        \/ RewindDirectory(h) \/ Close(h)
        \/ Position(h) \/ Peek(h) \/ Read(h)
        \/ \E p \in 0..MaxLen : Seek(h, p) \/ ReadMany(h, p)
        \/ \E c \in Bytes : Write(h, c)

Next == CardCalls \/ FileCalls

Spec == Init /\ [][Next]_vars

-----------------------------------------------------------------------------
Contents == Seq(Bytes \cup {0})
Listed == [path : Paths, dir : BOOLEAN]
Directories == [kind : {"dir"}, place : Places, path : Paths \cup {<<>>},
                left : SUBSET Listed]
Found == [at : Nat, byte : Bytes \cup {0}]
Streams == [kind : {"file"}, i : Files, in : BOOLEAN, out : BOOLEAN, pos : Nat,
            eof : BOOLEAN, fail : BOOLEAN, bad : BOOLEAN,
            from : Nat, got : Seq(Found), skip : Nat]

TypeOK ==
    /\ sd \in [begun : BOOLEAN, cspin : Pins \cup {0}, asked : Pins \cup {0},
               noDevice : BOOLEAN]
    /\ data \in [Files -> Contents]
    /\ DOMAIN tree = Places
    /\ \A p \in Places : /\ DOMAIN tree[p] \subseteq Paths
                         /\ tree[p] \in [DOMAIN tree[p] -> {Dir} \cup Files]
    /\ file \in [Handles -> {NotOpened} \cup Directories \cup Streams]

\* Whatever is created and removed, and in whatever order, everything in a tree
\* lies in a directory of that tree.
TreeIsClosed ==
    \A p \in Places : \A q \in DOMAIN tree[p] :
        Parent(q) # <<>> => Parent(q) \in DOMAIN tree[p] /\ tree[p][Parent(q)] = Dir

\* If every pin a sketch begins with has a card, and the default pin has one, the
\* sketch never touches a path relative to its own process.
NothingOutsideCards == {0} \cup Pins \subseteq Cards => tree[Cwd] = <<>>

\* No two File variables have the same file open.
StreamsApart ==
    \A h, g \in Handles :
        IsStream(h) /\ IsStream(g) /\ file[h].i = file[g].i => h = g

\* The position is where the reads since the last open, seek or write end, past all
\* that they returned and all that they skipped.
InStep(f) ==
    /\ f.pos = f.from + Len(f.got) + f.skip
    /\ \A j \in DOMAIN f.got : f.got[j].at \in f.from..(f.pos - 1)

Tracked == \A h \in Handles : IsStream(h) => InStep(file[h])

\* What a sketch does with its cards leaves the trees well formed, the streams in
\* step with what they read, and nothing outside the cards.
SdInv == TypeOK /\ TreeIsClosed /\ NothingOutsideCards /\ StreamsApart /\ Tracked

\* What a stream f over the contents c returned is in c, in order.
Orderly(f, c) ==
    /\ \A j \in DOMAIN f.got :
          /\ f.got[j].at < Len(c)
          /\ f.got[j].byte = c[f.got[j].at + 1]
          /\ f.skip = 0 => f.got[j].at = f.from + j - 1
    /\ \A j, k \in DOMAIN f.got : j < k => f.got[j].at < f.got[k].at

\* The bytes that reads return since the last open, seek or write are those of the
\* file, in its order and none twice, whatever mix of read() and read(buffer, n)
\* asked for them; and without a gap, as long as no read(buffer, n) was among
\* them that got its n bytes (BlocksFollow, below, is about those).
ReadsInOrder ==
    \A h \in Handles : IsStream(h) => Orderly(file[h], Content(file[h]))

\* A File that has read past its end, or could not be written, is dead: nothing
\* but opening it anew makes it read or write again, not even a seek, although
\* seek() and write() go on to report success.
DeadAfterEnd ==
    [][\A h \in Handles :
          IsStream(h) /\ Failed(file[h]) /\ IsStream(h)' /\ file'[h].i = file[h].i =>
              Failed(file'[h]) /\ file'[h].pos = file[h].pos]_vars

\* begin() says "no such device" only if the pin it was given has no card.
NoSuchDevice == sd.noDevice => sd.asked \notin Cards

\* available() is the number of bytes available to read.
AvailableIsHonest ==
    \A h \in Handles : IsStream(h) => AvailableCount(file[h]) >= 0

\* Reads leave no byte out, so that a file can be read in blocks.
BlocksFollow ==
    \A h \in Handles : IsStream(h) =>
        \A j \in DOMAIN file[h].got : file[h].got[j].at = file[h].from + j - 1

\* peek() does not move the cursor.
PeekKeepsCursor ==
    [][\A h \in Handles : IsStream(h) /\ Peek(h) => Tellg(file'[h]) = Tellg(file[h])]_vars
===============================================================================
