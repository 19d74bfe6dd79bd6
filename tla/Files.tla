------------------------------- MODULE Files --------------------------------
(***************************************************************************)
(* The virtual file system: a tree of named nodes, file systems mounted at *)
(* its leaves, and threads that mount, open and list while others do.      *)
(* Each node has a lock of its own, so a walk along a path is one step per *)
(* name.  Nodes and mounts are never removed (unmount() is empty).  The    *)
(* second part is FsPath: the text of a path, as it is made and changed.   *)
(***************************************************************************)
EXTENDS Naturals, Sequences, SequencesExt, FiniteSets, TLC

CONSTANTS Systems, Mutable, \* the file systems, and those that may be written
          HasFiles, \* of each the paths it begins with, and
          HasDirs,  \* its directories, both from its root
          MountPoints, \* where they are mounted
          Paths, Listed,  \* what is opened, and what is listed
          Threads, None,
          Texts,    \* what paths are made of, as sequences of characters
          MaxNames  \* bound on the names of a path

\* What the constants must satisfy.
MutableAssumption == Mutable \subseteq Systems

VARIABLES
  mounted,  \* the FsNodes by their names from the root, of each its m_mountedFs in order
  files,    \* what each file system contains by now
  walk,     \* the call of each thread: what it wants, and how far it got
  opened,   \* the last file that each thread got: its path, system and state
  text,     \* m_path of an FsPath,
  meant     \* and the path that it stands for: is it absolute, and its names
fileVars == <<mounted, files, walk, opened>>
pathVars == <<text, meant>>

Nodes == DOMAIN mounted
Children(n) == {m \in Nodes : Len(m) = Len(n) + 1 /\ IsPrefix(n, m)}
HasMounts(n) == mounted[n] # <<>>

\* A path is the sequence of its names.  splitElements() finds an empty name
\* before the first "/", and two in "/" itself.
Elements(path) == IF path = <<>> THEN <<"", "">> ELSE <<"">> \o path
Base(n) == SelectSeq(n, LAMBDA name : name # "")

\* getRelativePath: nothing is relative to "/", whose second name is empty.
Relative(path, n) == IF Base(n) = <<>> THEN <<>> ELSE SubSeq(path, Len(Base(n)) + 1, Len(path))

Idle == [op |-> None]

Init ==
  /\ mounted = (<<>> :> <<>>) /\ files = HasFiles
  /\ walk = [t \in Threads |-> Idle] /\ opened = [t \in Threads |-> None]
  /\ text = <<>> /\ meant = [absolute |-> FALSE, names |-> <<>>]

Say(t, w) == walk' = [walk EXCEPT ![t] = w]

-----------------------------------------------------------------------------
(* The way along a path *)

\* mount() takes a file system, openFile() an access and a mode, and
\* openDirIterator() a path.
Call(t, op, path, with) ==
  /\ walk[t].op = None
  /\ Say(t, [op |-> op, path |-> path, with |-> with, node |-> <<>>])
  /\ UNCHANGED <<mounted, files, opened>>

NextName(t) == SubSeq(Elements(walk[t].path), 1, Len(walk[t].node) + 1)
Arrived(t) == walk[t].node = Elements(walk[t].path)

\* A mutant of GetChild: a child is made beside what is mounted.
GetChildAnyway(t) ==
  /\ walk[t].op = "mount" /\ ~Arrived(t)
  /\ Say(t, [walk[t] EXCEPT !.node = NextName(t)])
  /\ mounted' = IF NextName(t) \in Nodes THEN mounted ELSE mounted @@ (NextName(t) :> <<>>)
  /\ UNCHANGED <<files, opened>>

\* getChild: who mounts makes the nodes that are missing, unless something is
\* mounted where the next one would be.
GetChild(t) ==
  /\ walk[t].op = "mount" /\ ~Arrived(t)
  /\ IF NextName(t) \in Nodes
     THEN Say(t, [walk[t] EXCEPT !.node = NextName(t)]) /\ UNCHANGED mounted
     ELSE IF HasMounts(walk[t].node) THEN Say(t, Idle) /\ UNCHANGED mounted
     ELSE /\ Say(t, [walk[t] EXCEPT !.node = NextName(t)])
          /\ mounted' = mounted @@ (NextName(t) :> <<>>)
  /\ UNCHANGED <<files, opened>>

\* FsNode::mount: a leaf takes many file systems, but one that may be written.
Mount(t) ==
  LET n == walk[t].node IN
  /\ walk[t].op = "mount" /\ Arrived(t)
  /\ mounted' = IF Children(n) # {} \/ (walk[t].with \in Mutable /\ ToSet(mounted[n]) \cap Mutable # {})
                THEN mounted ELSE [mounted EXCEPT ![n] = Append(@, walk[t].with)]
  /\ Say(t, Idle) /\ UNCHANGED <<files, opened>>

\* findFsNodeForPath: as far as there are nodes; a path that goes on must have
\* a file system to go on in.
FindChild(t) ==
  /\ walk[t].op \in {"open", "list"} /\ ~Arrived(t) /\ NextName(t) \in Nodes
  /\ Say(t, [walk[t] EXCEPT !.node = NextName(t)])
  /\ UNCHANGED <<mounted, files, opened>>

Found(t, op) == walk[t].op = op /\ (~Arrived(t) => NextName(t) \notin Nodes)

-----------------------------------------------------------------------------
(* Files *)

IsDir(s, path) == path = <<>> \/ path \in HasDirs[s]

\* WinNativeFileSystem::openFile.  Without the right to write, or when the
\* file must be there, nothing comes of one that is not.  Otherwise the file
\* object is returned whether it could be opened or not.
Opens(s, path, with) ==
  ~(with.write /\ with.mode # "OpenExisting") => path \in files[s]
IsOpened(s, path, with) ==
  /\ ~IsDir(s, path) /\ IsDir(s, SubSeq(path, 1, Len(path) - 1))
  /\ with.mode = "CreateNew" => path \notin files[s]
  /\ with.mode = "OpenExisting" => path \in files[s]
Writes(with) == with.write \/ with.mode # "OpenExisting"

\* The file systems that openFile() would ask, in the order of the mounts:
\* the priority is kept, and never looked at.
Candidates(n, path, with) ==
  SelectSeq(mounted[n], LAMBDA s : (Writes(with) => s \in Mutable) /\ Opens(s, Relative(path, n), with))

OpenFile(t) ==
  LET w == walk[t]
      candidates == Candidates(w.node, w.path, w.with)
      s == Head(candidates)
      rest == Relative(w.path, w.node)
      isOpened == IsOpened(s, rest, w.with) IN
  /\ Found(t, "open")
  /\ IF candidates = <<>>
     THEN opened' = [opened EXCEPT ![t] = None] /\ UNCHANGED files
     ELSE /\ opened' = [opened EXCEPT ![t] = [path |-> w.path, system |-> s, isOpened |-> isOpened]]
          /\ files' = IF isOpened THEN [files EXCEPT ![s] = @ \cup {rest}] ELSE files
  /\ Say(t, Idle) /\ UNCHANGED mounted

\* exists(path, kind): the nodes are directories, the rest is asked of the mounts.
NodeOf(path) ==
  CHOOSE n \in Nodes : /\ IsPrefix(n, Elements(path))
                       /\ \A m \in Nodes : IsPrefix(m, Elements(path)) => Len(m) <= Len(n)
Has(s, path, kind) ==
  \/ kind # "file" /\ IsDir(s, path)
  \/ kind # "directory" /\ path \in files[s]
Exists(path, kind) ==
  LET n == NodeOf(path) IN
  IF Base(n) = path THEN kind # "file"
  ELSE \E i \in DOMAIN mounted[n] : Has(mounted[n][i], Relative(path, n), kind)

-----------------------------------------------------------------------------
(* Directories *)

\* What a file system has in one of its directories.
Entries(s, dir) ==
  {path \in files[s] \cup HasDirs[s] : Len(path) = Len(dir) + 1 /\ IsPrefix(dir, path)}

\* getNextFsContainingPath: the next system that has the directory, or None.
NextSystem(n, s, dir) ==
  LET after == IF s = None THEN mounted[n]
               ELSE SubSeq(mounted[n], (CHOOSE i \in DOMAIN mounted[n] : mounted[n][i] = s) + 1,
                           Len(mounted[n]))
      having == SelectSeq(after, LAMBDA x : IsDir(x, dir)) IN
  IF having = <<>> THEN None ELSE Head(having)

\* The listing returns an entry e of what is left.
Return(t, w, s, left, e) ==
  Say(t, [w EXCEPT !.op = "listing", !.with = s, !.left = left \ {e}, !.listed = @ \cup {Base(w.node) \o e}])

\* getNextFsIterator: the listing ends when there is no other system, and
\* also when the next one has the directory, but nothing in it.
NextIterator(t, w, s) ==
  LET dir == Relative(w.path, w.node)
      next == NextSystem(w.node, s, dir) IN
  IF next = None \/ Entries(next, dir) = {} THEN Say(t, Idle)
  ELSE \E e \in Entries(next, dir) : Return(t, w, next, Entries(next, dir), e)

\* What a listing will return at least: what is there when it begins, in the
\* systems before the first where the directory is empty.
Promised(w) ==
  LET dir == Relative(w.path, w.node)
      systems == SelectSeq(mounted[w.node], LAMBDA s : IsDir(s, dir))
      whole == {i \in DOMAIN systems : \A j \in 1..i : Entries(systems[j], dir) # {}} IN
  UNION {{Base(w.node) \o e : e \in Entries(systems[i], dir)} : i \in whole}

\* openDirIterator, of the systems mounted there or of the nodes themselves.
OpenDir(t) ==
  /\ Found(t, "list")
  /\ LET w == walk[t] @@ [left |-> {}, listed |-> {}, promised |-> Promised(walk[t])] IN
     IF HasMounts(w.node) THEN NextIterator(t, w, None)
     ELSE IF Base(w.node) = w.path /\ Children(w.node) # {} THEN Say(t, [w EXCEPT !.op = "nodes"])
     ELSE Say(t, Idle)
  /\ UNCHANGED <<mounted, files, opened>>

\* incrementDirIterator, by MultiFsDirIteratorImpl,
Increment(t) ==
  /\ walk[t].op = "listing"
  /\ IF walk[t].left # {}
     THEN \E e \in walk[t].left : Return(t, walk[t], walk[t].with, walk[t].left, e)
     ELSE NextIterator(t, walk[t], walk[t].with)
  /\ UNCHANGED <<mounted, files, opened>>

\* and by InnerDirIteratorImpl: a child that is made meanwhile comes last.
IncrementNodes(t) ==
  /\ walk[t].op = "nodes"
  /\ LET rest == {Base(child) : child \in Children(walk[t].node)} \ walk[t].listed IN
     IF rest = {} THEN Say(t, Idle)
     ELSE \E path \in rest : Say(t, [walk[t] EXCEPT !.listed = @ \cup {path}])
  /\ UNCHANGED <<mounted, files, opened>>

Modes == {[write |-> FALSE, mode |-> "OpenExisting"], [write |-> TRUE, mode |-> "OpenExisting"],
          [write |-> TRUE, mode |-> "CreateNew"], [write |-> TRUE, mode |-> "OpenAlways"]}

\* Bound: a file system is mounted once.  One that is mounted twice at a node
\* would make a listing of it return to its first entry for ever.
IsUsed(s) == (\E n \in Nodes : s \in ToSet(mounted[n])) \/ (\E t \in Threads : walk[t].op = "mount" /\ walk[t].with = s)

FileNext ==
  \E t \in Threads :
    \/ \E path \in MountPoints, s \in Systems : ~IsUsed(s) /\ Call(t, "mount", path, s)
    \/ \E path \in Listed : Call(t, "list", path, None)
    \/ \E path \in Paths, mode \in Modes : Call(t, "open", path, mode)
    \/ GetChild(t) \/ Mount(t) \/ FindChild(t) \/ OpenFile(t)
    \/ OpenDir(t) \/ Increment(t) \/ IncrementNodes(t)

-----------------------------------------------------------------------------
(* FsPath *)

Slash == "/"
Slashes == {"/", "\\"}

Trim(s) ==
  LET kept == {i \in DOMAIN s : s[i] # " "}
  IN IF kept = {} THEN <<>>
     ELSE SubSeq(s, CHOOSE i \in kept : \A j \in kept : i <= j, CHOOSE i \in kept : \A j \in kept : i >= j)

\* makePreferredPathString: no spaces around it, and no slash that is doubled,
\* backward or the last.
Preferred(s) ==
  LET forward == [i \in DOMAIN Trim(s) |-> IF Trim(s)[i] \in Slashes THEN Slash ELSE Trim(s)[i]]
      single == FoldLeft(LAMBDA r, c : IF c = Slash /\ r # <<>> /\ Last(r) = Slash THEN r ELSE Append(r, c),
                         <<>>, forward)
  IN IF Len(single) > 1 /\ Last(single) = Slash THEN Front(single) ELSE single

\* getParentPath. The parent of a path with one name is "/", or empty.
ParentPath(s) ==
  LET i == SelectLastInSeq(s, LAMBDA c : c = Slash)
  IN IF i = 1 THEN <<Slash>> ELSE Preferred(SubSeq(s, 1, i - 1))

\* getRootPath: up to the first slash that does not begin the path.
RootPath(s) ==
  LET i == SelectInSeq(Tail(s), LAMBDA c : c = Slash)
  IN IF s = <<>> \/ i = 0 THEN <<>> ELSE SubSeq(s, 1, i)

GetName(s) == SubSeq(s, SelectLastInSeq(s, LAMBDA c : c = Slash) + 1, Len(s))

\* getStem, getExtension: the point of the extension is not the first character.
Point(name) == LET i == SelectLastInSeq(name, LAMBDA c : c = ".") IN IF i <= 1 \/ name = <<".", ".">> THEN 0 ELSE i
Stem(s) == IF Point(GetName(s)) = 0 THEN GetName(s) ELSE SubSeq(GetName(s), 1, Point(GetName(s)) - 1)
Extension(s) == IF Point(GetName(s)) = 0 THEN <<>> ELSE SubSeq(GetName(s), Point(GetName(s)), Len(GetName(s)))

\* replace_extension looks for the last point of the whole path.
ReplaceExtension(s, extension) ==
  LET separator == SelectLastInSeq(s, LAMBDA c : c = Slash)
      point == SelectLastInSeq(s, LAMBDA c : c = ".")
  IN Preferred((IF point > separator THEN SubSeq(s, 1, point - 1) ELSE s) \o <<".">> \o extension)

\* splitElements, with an empty name before a slash that begins the path.
Split(s) ==
  IF s = <<>> THEN <<>>
  ELSE FoldLeft(LAMBDA r, c : IF c = Slash THEN Append(r, <<>>) ELSE Append(Front(r), Append(Last(r), c)),
                <<<<>>>>, s)

\* append: the name loses the slashes around it.
AppendName(s, name) ==
  LET inner == {i \in DOMAIN name : name[i] # Slash}
      bare == IF inner = {} THEN <<>>
              ELSE SubSeq(name, CHOOSE i \in inner : \A j \in inner : i <= j, CHOOSE i \in inner : \A j \in inner : i >= j)
  IN Preferred(IF bare = <<>> THEN s ELSE IF s = <<>> \/ Last(s) = Slash THEN s \o bare
               ELSE s \o <<Slash>> \o bare)

\* operator==, element by element but for "/".
SamePath(s, other) == IF <<Slash>> \in {s, other} THEN s = other ELSE Split(s) = Split(other)

\* getRelativePath, empty for one that is not below the base.
RelativePath(s, base) ==
  LET names == Split(s)  below == Split(base)
      common == \A i \in DOMAIN names \cap DOMAIN below : names[i] = below[i]
  IN IF common THEN FoldLeft(AppendName, <<>>, SubSeq(names, Len(below) + 1, Len(names))) ELSE <<>>

AbsolutePath(s) == Preferred(IF s # <<>> /\ s[1] = Slash THEN s ELSE <<Slash>> \o s)

\* What a text means, whatever its slashes.
Meaning(s) ==
  [absolute |-> Trim(s) # <<>> /\ Trim(s)[1] \in Slashes,
   names |-> SelectSeq(Split([i \in DOMAIN Trim(s) |-> IF Trim(s)[i] \in Slashes THEN Slash ELSE Trim(s)[i]]),
                       LAMBDA name : name # <<>>)]

\* The constructors.
MakePath(s) == text' = Preferred(s) /\ meant' = Meaning(s)

\* append asserts that what it is given is relative.
AppendPath(s) ==
  /\ ~Meaning(s).absolute /\ Len(meant.names) + Len(Meaning(s).names) <= MaxNames
  /\ text' = AppendName(text, Preferred(s))
  /\ meant' = [meant EXCEPT !.names = @ \o Meaning(s).names]

MakeAbsolute == text' = AbsolutePath(text) /\ meant' = [meant EXCEPT !.absolute = TRUE]

GoToParent ==
  /\ text' = ParentPath(text)
  /\ meant' = [meant EXCEPT !.names = IF @ = <<>> THEN @ ELSE Front(@)]

\* The text of what is meant.
Text(m) ==
  LET joined == FoldLeft(LAMBDA r, name : IF r = <<>> THEN name ELSE r \o <<Slash>> \o name, <<>>, m.names)
  IN IF m.absolute THEN <<Slash>> \o joined ELSE joined

\* Relative to a path above it, but not to "/" (see Relative).
GoRelative(n) ==
  /\ n \in DOMAIN meant.names
  /\ text' = RelativePath(text, Text([meant EXCEPT !.names = SubSeq(@, 1, n)]))
  /\ meant' = [absolute |-> FALSE, names |-> SubSeq(meant.names, n + 1, Len(meant.names))]

PathNext ==
  \/ MakeAbsolute \/ GoToParent \/ \E n \in 1..MaxNames : GoRelative(n)
  \/ \E s \in Texts : MakePath(s) \/ AppendPath(s)

Next == FileNext \/ PathNext

Spec == Init /\ [][Next]_<<fileVars, pathVars>>

-----------------------------------------------------------------------------
\* File systems are mounted at leaves only, whoever mounts at once, and at
\* most one of those at a node may be written.
MountsAreLeaves ==
  \A n \in Nodes : HasMounts(n) => Children(n) = {} /\ Cardinality(ToSet(mounted[n]) \cap Mutable) <= 1

\* What was opened or listed can be found by its path, whatever is mounted
\* meanwhile.
WhatIsSeenExists ==
  \A t \in Threads :
    /\ opened[t] # None => (opened[t].isOpened => Exists(opened[t].path, "file"))
    /\ walk[t].op \in {"listing", "nodes"} => \A path \in walk[t].listed : Exists(path, "any")

\* What is mounted can be found, every file of it.  Not so at "/".
MountedIsFound ==
  \A n \in Nodes : \A s \in ToSet(mounted[n]) : \A path \in files[s] : Exists(Base(n) \o path, "file")

\* A listing that ends has returned what was there when it began.
ListingIsWhole ==
  [][\A t \in Threads : walk[t].op = "listing" /\ walk'[t].op = None
                          => walk[t].promised \subseteq walk[t].listed]_fileVars

\* However a path was made, its text is the text of what is meant, and so are its
\* parts: parent and name, stem and extension make the whole again, the root is the
\* first name, and another extension changes nothing but that.
PathIsMeant ==
  LET names == meant.names  first == [meant EXCEPT !.names = SubSeq(@, 1, 1)] IN
  /\ text = Text(meant) /\ Preferred(text) = text
  /\ SamePath(AppendName(ParentPath(text), GetName(text)), text)
  /\ Stem(text) \o Extension(text) = GetName(text)
  /\ RootPath(text) = IF Len(names) > 1 THEN Text(first) ELSE <<>>
  /\ names # <<>> /\ Last(names)[1] # "." =>
       LET replaced == ReplaceExtension(text, <<"n">>)
       IN /\ ParentPath(replaced) = ParentPath(text) /\ Stem(replaced) = Stem(text)
          /\ Extension(replaced) = <<".", "n">>

=============================================================================
