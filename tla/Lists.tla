------------------------------- MODULE Lists -------------------------------
(***************************************************************************)
(* IntrusiveList: the nodes carry the links themselves, so a node is in    *)
(* one list at most, leaves it when it is destroyed and may be erased by   *)
(* the loop that walks over it.  The assertions of the code are what the   *)
(* callers keep to: a node that is inserted is free, a position belongs to *)
(* the list, and nobody else erases the node a loop stands at.             *)
(***************************************************************************)
EXTENDS Naturals, SequencesExt

CONSTANTS Lists, Nodes, Null

\* What the constants must satisfy.
ListsAssumption == Null \notin Lists /\ Null \notin Nodes

VARIABLES
  links,   \* m_head and m_tail of every list, m_list, m_prev and m_next of every node
  walk     \* a loop over a list: [list, at, due], due being what it has not met yet

listVars == <<links, walk>>

NodeOrNull == Nodes \cup {Null}

LinksType ==
  [head : [Lists -> NodeOrNull], tail : [Lists -> NodeOrNull],
   list : [Nodes -> Lists \cup {Null}],
   prev : [Nodes -> NodeOrNull], next : [Nodes -> NodeOrNull]]

NoWalk == [list |-> Null, at |-> Null, due |-> {}]

Members(l) == {n \in Nodes : links.list[n] = l}

Free(n) == links.list[n] = Null /\ links.prev[n] = Null /\ links.next[n] = Null

\* The nodes met from n on, following the given links.
RECURSIVE Reading(_, _)
Reading(n, step) == IF n = Null THEN << >> ELSE <<n>> \o Reading(step[n], step)

Order(l) == Reading(links.head[l], links.next)

-----------------------------------------------------------------------------
\* A mutant of LinkBefore: the head is moved by the first insertion only.
LinkBeforeKeepHead(s, l, pos, n) ==
  LET before == IF pos = Null THEN s.tail[l] ELSE s.prev[pos] IN
  [head |-> IF s.head[l] = Null THEN [s.head EXCEPT ![l] = n] ELSE s.head,
   tail |-> IF pos = Null THEN [s.tail EXCEPT ![l] = n] ELSE s.tail,
   list |-> [s.list EXCEPT ![n] = l],
   prev |-> [m \in Nodes |-> CASE m = n -> before [] m = pos -> n
                               [] OTHER -> s.prev[m]],
   next |-> [m \in Nodes |-> CASE m = n -> pos [] m = before -> n
                               [] OTHER -> s.next[m]]]

\* insert: n before pos, at the end when pos is end().
LinkBefore(s, l, pos, n) ==
  LET before == IF pos = Null THEN s.tail[l] ELSE s.prev[pos] IN
  [head |-> IF pos = s.head[l] THEN [s.head EXCEPT ![l] = n] ELSE s.head,
   tail |-> IF pos = Null THEN [s.tail EXCEPT ![l] = n] ELSE s.tail,
   list |-> [s.list EXCEPT ![n] = l],
   prev |-> [m \in Nodes |-> CASE m = n -> before [] m = pos -> n
                               [] OTHER -> s.prev[m]],
   next |-> [m \in Nodes |-> CASE m = n -> pos [] m = before -> n
                               [] OTHER -> s.next[m]]]

\* erase(pos): the neighbours are joined, an end of the list moves.
Unlink(s, n) ==
  LET p == s.prev[n]
      q == s.next[n]
      l == s.list[n]
  IN [head |-> IF p = Null THEN [s.head EXCEPT ![l] = q] ELSE s.head,
      tail |-> IF q = Null THEN [s.tail EXCEPT ![l] = p] ELSE s.tail,
      list |-> [s.list EXCEPT ![n] = Null],
      prev |-> [m \in Nodes |-> CASE m = n -> Null [] m = q -> p [] OTHER -> s.prev[m]],
      next |-> [m \in Nodes |-> CASE m = n -> Null [] m = p -> q [] OTHER -> s.next[m]]]

\* erase(first, last): one after the other until last, or the end, is reached.
RECURSIVE UnlinkRange(_, _, _)
UnlinkRange(s, first, last) ==
  IF first = last THEN s ELSE UnlinkRange(Unlink(s, first), s.next[first], last)

\* clear: from the tail on every node forgets the list.
Cleared(s, l) ==
  LET gone == Range(Reading(s.tail[l], s.prev))
      Forget(f) == [n \in Nodes |-> IF n \in gone THEN Null ELSE f[n]]
  IN [head |-> [s.head EXCEPT ![l] = Null], tail |-> [s.tail EXCEPT ![l] = Null],
      list |-> Forget(s.list), prev |-> Forget(s.prev), next |-> Forget(s.next)]

\* moveFrom: this list is cleared, the ends are swapped, every node is told.
MovedFrom(s, l, from) ==
  LET c == Cleared(s, l)
      moved == Range(Reading(c.head[from], c.next))
  IN [c EXCEPT !.head = [@ EXCEPT ![l] = c.head[from], ![from] = c.head[l]],
               !.tail = [@ EXCEPT ![l] = c.tail[from], ![from] = c.tail[l]],
               !.list = [n \in Nodes |-> IF n \in moved THEN l ELSE @[n]]]

-----------------------------------------------------------------------------
Init ==
  /\ links = [head |-> [l \in Lists |-> Null], tail |-> [l \in Lists |-> Null],
              list |-> [n \in Nodes |-> Null],
              prev |-> [n \in Nodes |-> Null], next |-> [n \in Nodes |-> Null]]
  /\ walk = NoWalk

PushBack(l, n) ==
  /\ Free(n)
  /\ links' = LinkBefore(links, l, Null, n)
  /\ UNCHANGED walk

PushFront(l, n) ==
  /\ Free(n)
  /\ links' = LinkBefore(links, l, links.head[l], n)
  /\ UNCHANGED walk

Insert(l, pos, n) ==
  /\ Free(n)
  /\ links.list[pos] = l
  /\ links' = LinkBefore(links, l, pos, n)
  /\ UNCHANGED walk

\* remove, erase of one position, and the destructor of a node in a list.
RemoveNode(n) ==
  /\ links.list[n] # Null
  /\ n # walk.at
  /\ links' = Unlink(links, n)
  /\ walk' = [walk EXCEPT !.due = @ \ {n}]

EraseRange(l, first, last) ==
  LET rest == Reading(first, links.next)
      erased == IF last = Null THEN Range(rest)
                ELSE Range(SubSeq(rest, 1, SelectInSeq(rest, LAMBDA m : m = last) - 1))
  IN /\ links.list[first] = l
     /\ last # first /\ last \in Range(rest) \cup {Null}
     /\ walk.at \notin erased
     /\ links' = UnlinkRange(links, first, last)
     /\ walk' = [walk EXCEPT !.due = @ \ erased]

\* clear, and the destructor of a list.
Clear(l) ==
  /\ walk.list # l
  /\ links' = Cleared(links, l)
  /\ UNCHANGED walk

\* The move constructor and the move assignment.
MoveFrom(l, from) ==
  /\ l # from
  /\ walk.list \notin {l, from}
  /\ links' = MovedFrom(links, l, from)
  /\ UNCHANGED walk

-----------------------------------------------------------------------------
Begin(l) ==
  /\ walk.list = Null
  /\ walk' = [list |-> l, at |-> links.head[l], due |-> Members(l)]
  /\ UNCHANGED links

Increment ==
  /\ walk.at # Null
  /\ walk' = [walk EXCEPT !.at = links.next[walk.at], !.due = @ \ {walk.at}]
  /\ UNCHANGED links

Decrement ==
  /\ walk.at # Null
  /\ links.prev[walk.at] # Null
  /\ walk' = [walk EXCEPT !.at = links.prev[walk.at], !.due = @ \ {walk.at}]
  /\ UNCHANGED links

\* it = erase(it), as the loops over the list do.
EraseHere ==
  /\ walk.at # Null
  /\ links' = Unlink(links, walk.at)
  /\ walk' = [walk EXCEPT !.at = links.next[walk.at], !.due = @ \ {walk.at}]

\* it == end().
End ==
  /\ walk.list # Null
  /\ walk.at = Null
  /\ walk' = NoWalk
  /\ UNCHANGED links

Next ==
  \/ \E l \in Lists, n \in Nodes : PushBack(l, n) \/ PushFront(l, n)
  \/ \E l \in Lists, pos, n \in Nodes : Insert(l, pos, n)
  \/ \E n \in Nodes : RemoveNode(n)
  \/ \E l \in Lists, first \in Nodes, last \in NodeOrNull : EraseRange(l, first, last)
  \/ \E l \in Lists : Clear(l) \/ Begin(l)
  \/ \E l, from \in Lists : MoveFrom(l, from)
  \/ Increment \/ Decrement \/ EraseHere \/ End

Spec == Init /\ [][Next]_listVars

-----------------------------------------------------------------------------
\* A list reads the same from both ends, and what it reads are the nodes that
\* say they are in it: no operation leaves one of the four links behind.
ListsAreWhole ==
  /\ links \in LinksType
  /\ \A l \in Lists :
       /\ Reverse(Order(l)) = Reading(links.tail[l], links.prev)
       /\ Range(Order(l)) = Members(l)

\* A loop that ends has met every node it started with and that nobody else took
\* out, whatever was inserted, erased by the loop itself or erased around it.
WalkMeetsEveryone == walk.list # Null /\ walk.at = Null => walk.due = {}

\* No operation changes the order of two nodes that stay together.
OrderIsKept ==
  [][\A l, k \in Lists :
       LET old == Order(l)
           new == Reading(links'.head[k], links'.next)
           Stay(n) == links.list[n] = l /\ links'.list[n] = k
       IN SelectSeq(old, Stay) = SelectSeq(new, Stay)]_links
=============================================================================
