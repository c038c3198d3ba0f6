------------------------------- MODULE StrList -------------------------------
(***************************************************************************)
(* String lists (src/strlist.c): linked items in allocated memory, with the      *)
(* list variables of the program pointing to the first ones.                     *)
(***************************************************************************)
EXTENDS Integers, FiniteSets, Sequences, SequencesExt

CONSTANTS Item,      \* the memory that items are allocated in
          NoItem,    \* a null pointer
          ListVar,   \* the list variables of the program
          ListWord,      \* the strings that are stored
          Texts      \* what is tokenized: sequences of words, blank ones among them

BlankToken == "blank"     \* a token of spaces only
Empty == "empty"     \* nothing between two delimiters

ASSUME StrListAssumption ==
  IsFiniteSet(Item) /\ NoItem \notin Item /\ Texts \subseteq Seq(ListWord \cup {BlankToken, Empty})

VARIABLES next,  \* [Item -> Item \cup {NoItem}]
          d,     \* [Item -> ListWord]
          alive, \* the items that are allocated
          var,   \* [ListVar -> Item \cup {NoItem}]
          holds  \* [ListVar -> the strings that the calls put there]
slVars == <<next, d, alive, var, holds>>

\* Memory: the links, the strings and the allocated items, as one record.
Memory == [next |-> next, d |-> d, alive |-> alive]
Allocate(m, s, n) == LET i == CHOOSE x \in Item : x \notin m.alive
                     IN  [m |-> [next |-> [m.next EXCEPT ![i] = n], d |-> [m.d EXCEPT ![i] = s],
                                 alive |-> m.alive \cup {i}],
                          item |-> i]
Room(m, n) == Cardinality(Item \ m.alive) >= n
Items(m, head) ==
  LET I[k \in 0..Cardinality(Item)] ==
        IF k = 0 THEN IF head = NoItem THEN <<>> ELSE <<head>>
        ELSE LET before == I[k - 1]
             IN  IF before = <<>> \/ m.next[Last(before)] = NoItem THEN before
                 ELSE Append(before, m.next[Last(before)])
  IN  I[Cardinality(Item)]
Strings(m, head) == [i \in DOMAIN Items(m, head) |-> m.d[Items(m, head)[i]]]
ToItems(m, head) == {Items(m, head)[i] : i \in DOMAIN Items(m, head)}
strlist_last(m, head) == IF head = NoItem THEN NoItem ELSE Last(Items(m, head))
strlist_prev(m, head, node) ==
  LET is == Items(m, head)
      before == {k \in DOMAIN is : \A j \in 1..k : is[j] # node}
  IN  IF before = {} THEN NoItem ELSE is[Max(before)]
strlist_find(m, head, s) == LET at == SelectSeq(Items(m, head), LAMBDA i : m.d[i] = s)
                            IN  IF at = <<>> THEN NoItem ELSE Head(at)

strlist_free(m, head) == [m EXCEPT !.alive = @ \ ToItems(m, head)]
\* A list and the memory after an item has been put at its end.
do_strlist_append(l, s) ==
  LET new == Allocate(l.m, s, NoItem)
      last == strlist_last(l.m, l.head)
  IN  IF l.head = NoItem THEN [m |-> new.m, head |-> new.item]
      ELSE [m |-> [new.m EXCEPT !.next[last] = new.item], head |-> l.head]
RemoveLastLinked(l) == [m |-> strlist_free(l.m, strlist_last(l.m, l.head)),
                        head |-> IF strlist_prev(l.m, l.head, strlist_last(l.m, l.head)) = NoItem
                                 THEN NoItem ELSE l.head]
RemoveLast(l) ==
  LET last == strlist_last(l.m, l.head)
      prev == strlist_prev(l.m, l.head, last)
  IN  IF prev = NoItem THEN [m |-> strlist_free(l.m, l.head), head |-> NoItem]
      ELSE [m |-> [strlist_free(l.m, last) EXCEPT !.next[prev] = NoItem], head |-> l.head]
\* One token: appended, and taken away again if trimming leaves nothing of it.
Token(l, t) == CASE t = Empty -> l
                 [] t = BlankToken -> RemoveLast(do_strlist_append(l, t))
                 [] OTHER -> do_strlist_append(l, t)
\* A copy of the first n items links the first one only: "last" is set to the address of
\* a local variable.
ListCopy(m, head, n) ==
  LET first == Allocate(m, m.d[head], NoItem)
      rest == SubSeq(Items(m, head), 2, n)
  IN  [m |-> FoldLeft(LAMBDA mm, i : Allocate(mm, m.d[i], NoItem).m, first.m, rest), head |-> first.item]
Reversed(m, head) ==
  LET is == Reverse(Items(m, head))
  IN  [m |-> [m EXCEPT !.next = [i \in Item |->
                IF i \in ToItems(m, head)
                THEN LET k == CHOOSE n \in DOMAIN is : is[n] = i IN IF k = Len(is) THEN NoItem ELSE is[k + 1]
                ELSE @[i]]],
       head |-> IF is = <<>> THEN NoItem ELSE is[1]]

-----------------------------------------------------------------------------
(***************************************************************************)
(* The functions, with memory for what they allocate and without.  A call that   *)
(* adds one item or gives back a string changes nothing then.                    *)
(***************************************************************************)
SlInit == /\ next = [i \in Item |-> NoItem] /\ d = [i \in Item |-> BlankToken] /\ alive = {}
          /\ var = [v \in ListVar |-> NoItem] /\ holds = [v \in ListVar |-> <<>>]

Becomes(l, v, strings) ==
  /\ next' = [i \in Item |-> IF i \in l.m.alive THEN l.m.next[i] ELSE NoItem]
  /\ d' = [i \in Item |-> IF i \in l.m.alive THEN l.m.d[i] ELSE BlankToken]
  /\ alive' = l.m.alive
  /\ var' = [var EXCEPT ![v] = l.head]
  /\ holds' = [holds EXCEPT ![v] = strings]

Prepend == \E v \in ListVar, w \in ListWord :
  /\ Room(Memory, 1)
  /\ LET new == Allocate(Memory, w, var[v])
     IN  Becomes([m |-> new.m, head |-> new.item], v, <<w>> \o holds[v])
AppendString == \E v \in ListVar, w \in ListWord :
  /\ Room(Memory, 1)
  /\ Becomes(do_strlist_append([m |-> Memory, head |-> var[v]], w), v, Append(holds[v], w))
Tokenize == \E v \in ListVar, t \in Texts :
  /\ Room(Memory, Len(t))
  /\ LET new == FoldLeft(Token, [m |-> Memory, head |-> NoItem], t)
         words == SelectSeq(t, LAMBDA w : w \notin {BlankToken, Empty})
         last == strlist_last(Memory, var[v])
     IN  Becomes([m |-> IF var[v] = NoItem \/ new.head = NoItem THEN new.m
                        ELSE [new.m EXCEPT !.next[last] = new.head],
                  head |-> IF var[v] = NoItem THEN new.head ELSE var[v]],
                 v, holds[v] \o words)
\* No memory for an item of the nth token: the new list is freed with the items it has.
TokenizeFails == \E v \in ListVar, t \in Texts : \E n \in 1..Len(t) :
  /\ t[n] # Empty /\ Room(Memory, n - 1)
  /\ LET new == FoldLeft(Token, [m |-> Memory, head |-> NoItem], SubSeq(t, 1, n - 1))
     IN  Becomes([m |-> strlist_free(new.m, new.head), head |-> var[v]], v, holds[v])
Copy == \E v, w \in ListVar :
  /\ var[v] # NoItem /\ var[w] = NoItem
  /\ Room(Memory, Len(Items(Memory, var[v])))
  /\ Becomes(ListCopy(Memory, var[v], Len(Items(Memory, var[v]))), w, holds[v])
\* No memory after n items, of which only the first can be freed.
CopyFails == \E v \in ListVar : \E n \in 1..(Len(Items(Memory, var[v])) - 1) :
  /\ Room(Memory, n)
  /\ LET new == ListCopy(Memory, var[v], n)
     IN  Becomes([m |-> strlist_free(new.m, new.head), head |-> var[v]], v, holds[v])
ReverseList == \E v \in ListVar : Becomes(Reversed(Memory, var[v]), v, Reverse(holds[v]))
Pop == \E v \in ListVar :
  /\ var[v] # NoItem
  /\ Becomes([m |-> [Memory EXCEPT !.alive = @ \ {var[v]}], head |-> next[var[v]]], v, Tail(holds[v]))
FreeList == \E v \in ListVar : Becomes([m |-> strlist_free(Memory, var[v]), head |-> NoItem], v, <<>>)
SlNext == Prepend \/ AppendString \/ Tokenize \/ TokenizeFails \/ Copy \/ CopyFails \/ ReverseList \/ Pop \/ FreeList
SlSpec == SlInit /\ [][SlNext]_slVars

-----------------------------------------------------------------------------
\* Two calls of tokenize, for a small instance.
TwoTexts == {<<"a", BlankToken, "b">>, <<BlankToken, "a", Empty>>}
-----------------------------------------------------------------------------
(***************************************************************************)
(* Properties.                                                              *)
(***************************************************************************)
\* Every list can be walked: its items are allocated, none is met twice, and no item is in
\* two lists (strlist_tokenize, which takes items out again while it builds its list, and
\* frees what it has built when there is no memory).
ListsSound ==
  /\ \A v \in ListVar : LET is == Items(Memory, var[v])
                        IN  ToItems(Memory, var[v]) \subseteq alive /\ Cardinality(ToItems(Memory, var[v])) = Len(is)
  /\ \A v, w \in ListVar : v # w => ToItems(Memory, var[v]) \cap ToItems(Memory, var[w]) = {}
\* "Return a copy of LIST.  On error set ERRNO and return NULL." (strlist.c:192): a list has
\* the strings that the calls put there, those of a copy included.
ListsHold == \A v \in ListVar : Strings(Memory, var[v]) = holds[v]
=============================================================================
