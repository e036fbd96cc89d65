----------------------------- MODULE BucketState ----------------------------
(***************************************************************************)
(* The state of a bucket (struct state of parlay_hash.h): a buffer of at   *)
(* most BufferSize entries and, once that is full, an overflow list.  A    *)
(* state is a value: every operation below builds a new one, and what it   *)
(* is built from (the links of the old list included) stays as it was.     *)
(*                                                                         *)
(* The count in the top bits of list_head is the length of buf, or one     *)
(* more than BufferSize when there is a list; the list is a sequence       *)
(* rather than a chain of links.                                           *)
(***************************************************************************)
EXTENDS Naturals, Sequences

CONSTANTS BufferSize,  \* entries that fit in the buffer
          None         \* no entry: the empty optional

ASSUME BufferSizeAssumption == BufferSize \in Nat \ {0}

(* The states of buckets with entries in E.                                *)
States(E) == [fwd : BOOLEAN, buf : Seq(E), list : Seq(E)]

Empty == [fwd |-> FALSE, buf |-> <<>>, list |-> <<>>]

(* What is left in a bucket that has been copied to the next version.      *)
Forwarded == [Empty EXCEPT !.fwd = TRUE]

Overfull(s) == s.list # <<>>

(* The buffer has no room for more, and there is no list before it is full. *)
WellFormed(s) == Len(s.buf) <= BufferSize /\ (Overfull(s) => Len(s.buf) = BufferSize)

(* In the order in which for_each_in_state goes through them.              *)
Entries(s) == s.buf \o s.list

StateSize(s) == Len(Entries(s))

EntrySet(s) == {Entries(s)[i] : i \in DOMAIN Entries(s)}

(* No key has two entries.                                                 *)
Distinct(s) ==
  \A j, m \in DOMAIN Entries(s) : Entries(s)[j].key = Entries(s)[m].key => j = m

(* The place of the first entry of key k in a buffer or a list, 0 if there *)
(* is none.                                                                *)
At(entries, k) ==
  CHOOSE n \in 0..Len(entries) :
    /\ \A j \in 1..Len(entries) : entries[j].key = k => n > 0 /\ n <= j
    /\ n > 0 => entries[n].key = k

InBuffer(s, k) == \E i \in DOMAIN s.buf : s.buf[i].key = k

Has(s, k) == \E e \in EntrySet(s) : e.key = k

(* The value of the first entry with key k.                                *)
Lookup(s, k) ==
  LET n == At(Entries(s), k) IN IF n = 0 THEN None ELSE Entries(s)[n].val

(* A new entry goes to the end of the buffer, or to the head of the list.  *)
AddEntry(s, e) ==
  IF Len(s.buf) < BufferSize
    THEN [s EXCEPT !.buf = Append(@, e)]
    ELSE [s EXCEPT !.list = <<e>> \o @]

Without(entries, n) == SubSeq(entries, 1, n - 1) \o SubSeq(entries, n + 1, Len(entries))

(* The last entry takes the place of entry n.                              *)
LastTo(entries, n) ==
  SubSeq([entries EXCEPT ![n] = entries[Len(entries)]], 1, Len(entries) - 1)

(* Mutant: the new list ends with the entry that is changed.               *)
ReplaceLosingTail(s, e) ==
  IF InBuffer(s, e.key)
    THEN [s EXCEPT !.buf[At(s.buf, e.key)] = e]
    ELSE [s EXCEPT !.list = Append(SubSeq(@, 1, At(@, e.key) - 1), e)]

(* A buffer is copied with one entry changed, a list up to that entry.     *)
ReplaceEntry(s, e) ==
  IF InBuffer(s, e.key)
    THEN [s EXCEPT !.buf[At(s.buf, e.key)] = e]
    ELSE [s EXCEPT !.list[At(s.list, e.key)] = e]

(* Mutant: the gap is always filled from the end of the buffer.            *)
RemoveIgnoringList(s, k) ==
  IF ~InBuffer(s, k) THEN [s EXCEPT !.list = Without(@, At(@, k))]
  ELSE [s EXCEPT !.buf = LastTo(@, At(@, k))]

(* A gap in the buffer is filled from the list, or else from its end.      *)
RemoveKey(s, k) ==
  IF ~InBuffer(s, k) THEN [s EXCEPT !.list = Without(@, At(@, k))]
  ELSE IF Overfull(s) THEN [s EXCEPT !.buf[At(s.buf, k)] = Head(s.list), !.list = Tail(@)]
  ELSE [s EXCEPT !.buf = LastTo(@, At(@, k))]

(* The part of s that copy_bucket puts in the new bucket of these keys,    *)
(* one entry after the other.                                              *)
Split(s, keys) ==
  LET entries == Entries(s)
      upto[j \in 0..Len(entries)] ==
        IF j = 0 THEN Empty
        ELSE IF entries[j].key \in keys THEN AddEntry(upto[j - 1], entries[j])
        ELSE upto[j - 1]
  IN upto[Len(entries)]
=============================================================================
