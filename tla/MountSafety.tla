------------------------------- MODULE MountSafety -------------------------------
(* Inode numbers and open files of a mount, proved for every tree of places, every  *)
(* number of requests and every event between their sections.                       *)
EXTENDS Mount, SequenceTheorems, TLAPS

\* Above an entry there are directories only.
Rooted(t) == \A p \in Places : t[p] # None => \A a \in Ancestors(p) : Is(t, a, "dir")

\* The members of a link group show one entry, of a file, that names them.
Grouped(t) ==
    \A p \in Places : t[p] # None /\ t[p].links # {} =>
        t[p].kind = "file" /\ p \in t[p].links /\ \A q \in t[p].links : t[q] = t[p]

Maps  == [Places -> Entries \cup {None}]
Trees == {t \in Maps : Rooted(t) /\ Grouped(t)}

HandleOK(h) ==
    /\ h \in [path : Places, bytes : Contents \cup {NoContent}, dirty : BOOLEAN,
             opened : Entries \cup {None}]
    /\ h.opened # None => h.opened.kind = "file"

HandlesInv ==
    /\ handles = [i \in DOMAIN handles |-> handles[i]] /\ DOMAIN handles \subseteq Nat
    /\ \A i \in DOMAIN handles : HandleOK(handles[i])
    /\ nextFh \in Nat

\* The number of a mapped path leads back to it; a new number is new.
NumbersInv ==
    /\ nextInode \in Nat
    /\ \A n \in DOMAIN toPath \cup DOMAIN meant : n \in Nat /\ n < nextInode
    /\ DOMAIN toInode \subseteq Seq(Names)
    /\ \A p \in DOMAIN toInode :
        /\ toInode[p] \in DOMAIN toPath /\ toPath[toInode[p]] = p
        /\ toInode[p] \in DOMAIN meant

\* What a mapped path shows is what its number was answered for, unless a new
\* workspace found something else there.
MeantInv ==
    \A p \in DOMAIN toInode \ {Root} :
        toInode[p] \notin off =>
            p \in Places /\ tree[p] # None /\ tree[p].id = meant[toInode[p]]

\* The sections that can follow the first.
Later ==
    {AnswerFor(p) : p \in Places} \cup {OpenFor(p, t) : p \in Places, t \in BOOLEAN}
        \cup {AttrFor(p, m) : p \in Places, m \in Metas}
        \cup {FileFor(w, i) : w \in {"resize", "release"}, i \in Nat}

Sound == tree \in Trees /\ head \in Trees /\ born \in Nat /\ HandlesInv /\ NumbersInv /\ MeantInv

MountInv == ~astray => Sound /\ todo \in Seq(Later)

--------------------------------------------------------------------------------
(* Paths *)

\* The absence of an entry is no entry.
LEMMA NoneIsNoEntry == None \notin Entries
BY DEF None, Entries

\* A place is a sequence of at least one name.
LEMMA PlaceSeq ==
    ASSUME NEW p \in Places
    PROVE  p \in Seq(Names) /\ Len(p) \in Nat /\ Len(p) >= 1
<1>1. PICK n \in 1..Depth : p \in [1..n -> Names]
  BY MountAssumption DEF Paths
<1>2. n \in Nat /\ n >= 1
  BY MountAssumption
<1>3. p \in Seq(Names) /\ Len(p) = n
  BY <1>1, <1>2, SeqDef, LenProperties
<1>4. QED
  BY <1>2, <1>3

\* One path lies beneath another when the other is its beginning.
LEMMA BeneathIs ==
    ASSUME NEW p \in Seq(Names), NEW q \in Seq(Names)
    PROVE  Beneath(p, q) <=> Len(q) <= Len(p) /\ \A i \in 1..Len(q) : p[i] = q[i]
<1>1. Len(p) \in Nat /\ Len(q) \in Nat
  BY LenProperties
<1>2. CASE Len(q) <= Len(p)
  <2> DEFINE u == Upto(p, Len(q))
  <2>1. u \in Seq(Names) /\ Len(u) = Len(q)
    BY <1>1, <1>2, SubSeqProperties, ElementOfSeq DEF Upto
  <2>2. \A i \in 1..Len(q) : u[i] = p[i]
    BY <1>1, <1>2, SMT DEF Upto
  <2>3. u = q <=> \A i \in 1..Len(q) : u[i] = q[i]
    BY <2>1, SeqEqual
  <2>4. QED
    BY <1>2, <2>2, <2>3 DEF Beneath
<1>3. QED
  BY <1>2 DEF Beneath

\* Beneath is a partial order, and what lies above one path is a chain.
LEMMA BeneathOrder ==
    /\ \A p \in Seq(Names) : Beneath(p, p)
    /\ \A p, q \in Seq(Names) : Beneath(p, q) /\ Beneath(q, p) => p = q
    /\ \A p, q, r \in Seq(Names) : Beneath(p, q) /\ Beneath(q, r) => Beneath(p, r)
    /\ \A p, q, r \in Seq(Names) :
           Beneath(p, q) /\ Beneath(p, r) => Beneath(q, r) \/ Beneath(r, q)
<1>0. \A p \in Seq(Names) : Len(p) \in Nat
  BY LenProperties
<1>1. \A p \in Seq(Names) : Beneath(p, p)
  BY <1>0, BeneathIs
<1>2. ASSUME NEW p \in Seq(Names), NEW q \in Seq(Names), Beneath(p, q), Beneath(q, p)
      PROVE  p = q
  <2>1. Len(p) = Len(q) /\ \A i \in 1..Len(p) : p[i] = q[i]
    BY <1>0, <1>2, BeneathIs
  <2>2. QED
    BY <2>1, SeqEqual
<1>3. ASSUME NEW p \in Seq(Names), NEW q \in Seq(Names), NEW r \in Seq(Names),
             Beneath(p, q), Beneath(q, r)
      PROVE  Beneath(p, r)
  BY <1>0, <1>3, BeneathIs
<1>4. ASSUME NEW p \in Seq(Names), NEW q \in Seq(Names), NEW r \in Seq(Names),
             Beneath(p, q), Beneath(p, r)
      PROVE  Beneath(q, r) \/ Beneath(r, q)
  BY <1>0, <1>4, BeneathIs
<1>5. QED
  BY <1>1, <1>2, <1>3, <1>4

\* The ancestors of a place are the other places it lies beneath.
LEMMA AncestorsAre ==
    ASSUME NEW p \in Places
    PROVE  Ancestors(p) = {a \in Places : a # p /\ Beneath(p, a)}
<1>1. p \in Seq(Names) /\ Len(p) \in Nat /\ Len(p) >= 1
  BY PlaceSeq
<1>2. ASSUME NEW a \in Ancestors(p)
      PROVE  a \in Places /\ a # p /\ Beneath(p, a)
  <2>1. PICK n \in 1..(Len(p) - 1) : a = Upto(p, n)
    BY <1>2 DEF Ancestors
  <2>2. Len(a) = n
    BY <1>1, <2>1, SubSeqProperties, ElementOfSeq DEF Upto
  <2>3. a \in Places
    BY <1>2, MountAssumption
  <2>4. a # p
    BY <1>1, <2>2
  <2>5. Beneath(p, a)
    BY <1>1, <2>1, <2>2 DEF Beneath
  <2>6. QED
    BY <2>3, <2>4, <2>5
<1>3. ASSUME NEW a \in Places, a # p, Beneath(p, a)
      PROVE  a \in Ancestors(p)
  <2>1. a \in Seq(Names) /\ Len(a) \in Nat /\ Len(a) >= 1
    BY PlaceSeq
  <2>2. Len(a) # Len(p)
    BY <1>1, <1>3, <2>1, BeneathIs, SeqEqual
  <2>3. Len(a) \in 1..(Len(p) - 1) /\ a = Upto(p, Len(a))
    BY <1>1, <1>3, <2>1, <2>2 DEF Beneath
  <2>4. QED
    BY <2>3 DEF Ancestors
<1>4. QED
  BY <1>2, <1>3

\* What a rename carries keeps its place under the new name, and can be found from
\* there.
LEMMA OntoIs ==
    ASSUME NEW q \in Seq(Names), NEW from \in Seq(Names), NEW to \in Seq(Names),
           Beneath(q, from)
    PROVE  /\ Onto(q, from, to) \in Seq(Names)
           /\ Len(Onto(q, from, to)) = Len(to) + Len(q) - Len(from)
           /\ Beneath(Onto(q, from, to), to)
           /\ \A i \in 1..(Len(q) - Len(from)) :
                  Onto(q, from, to)[Len(to) + i] = q[Len(from) + i]
           /\ Onto(Onto(q, from, to), to, from) = q
<1> DEFINE s == SubSeq(q, Len(from) + 1, Len(q))
           o == Onto(q, from, to)
<1>1. Len(q) \in Nat /\ Len(from) \in Nat /\ Len(to) \in Nat /\ Len(from) <= Len(q)
  BY LenProperties DEF Beneath
<1>2. s \in Seq(Names) /\ Len(s) = Len(q) - Len(from)
  <2>1. \A i \in (Len(from) + 1)..Len(q) : q[i] \in Names
    BY <1>1, ElementOfSeq
  <2>2. QED
    BY <1>1, <2>1, SubSeqProperties
<1>3. \A i \in 1..(Len(q) - Len(from)) : s[i] = q[Len(from) + i]
  BY <1>1, SMT
<1>4. /\ o \in Seq(Names) /\ Len(o) = Len(to) + Len(q) - Len(from)
      /\ \A i \in 1..Len(o) : o[i] = IF i <= Len(to) THEN to[i] ELSE s[i - Len(to)]
  <2> HIDE DEF s
  <2>1. o = to \o s
    BY DEF Onto, s
  <2>2. Len(o) = Len(to) + Len(s)
    BY <1>2, <2>1, ConcatProperties
  <2>3. o \in Seq(Names) /\ Len(o) = Len(to) + Len(q) - Len(from)
    BY <1>1, <1>2, <2>1, <2>2, ConcatProperties
  <2>4. QED
    BY <1>2, <2>1, <2>2, <2>3, ConcatProperties
<1>5. Beneath(o, to)
  <2>1. Len(to) <= Len(o) /\ \A i \in 1..Len(to) : i \in 1..Len(o) /\ i <= Len(to)
    BY <1>1, <1>4
  <2>2. \A i \in 1..Len(to) : o[i] = to[i]
    BY <1>4, <2>1
  <2>3. QED
    BY <1>4, <2>1, <2>2, BeneathIs
<1>6. \A i \in 1..(Len(q) - Len(from)) : o[Len(to) + i] = q[Len(from) + i]
  <2> SUFFICES ASSUME NEW i \in 1..(Len(q) - Len(from))
               PROVE  o[Len(to) + i] = q[Len(from) + i]
    OBVIOUS
  <2>1. Len(to) + i \in 1..Len(o) /\ ~(Len(to) + i <= Len(to)) /\ (Len(to) + i) - Len(to) = i
    BY <1>1, <1>4
  <2>2. QED
    BY <1>3, <1>4, <2>1
<1>7. Onto(o, to, from) = q
  <2> DEFINE s2 == SubSeq(o, Len(to) + 1, Len(o))
             b == Onto(o, to, from)
  <2>1. s2 \in Seq(Names) /\ Len(s2) = Len(q) - Len(from)
    <3>1. \A i \in (Len(to) + 1)..Len(o) : o[i] \in Names
      BY <1>1, <1>4, ElementOfSeq
    <3>2. QED
      BY <1>1, <1>4, <3>1, SubSeqProperties
  <2>2. \A i \in 1..(Len(q) - Len(from)) : s2[i] = o[Len(to) + i]
    BY <1>1, <1>4, SMT
  <2>3. /\ b \in Seq(Names) /\ Len(b) = Len(q)
        /\ \A i \in 1..Len(b) : b[i] = IF i <= Len(from) THEN from[i] ELSE s2[i - Len(from)]
    BY <1>1, <2>1, ConcatProperties, SMTT(60) DEF Onto
  <2>4. \A i \in 1..Len(from) : q[i] = from[i]
    BY BeneathIs
  <2>5. ASSUME NEW i \in 1..Len(q) PROVE b[i] = q[i]
    <3>1. CASE i <= Len(from)
      BY <1>1, <2>3, <2>4, <3>1
    <3>2. CASE ~(i <= Len(from))
      <4>1. i - Len(from) \in 1..(Len(q) - Len(from)) /\ Len(from) + (i - Len(from)) = i
        BY <1>1, <3>2
      <4>2. QED
        BY <1>6, <2>2, <2>3, <3>2, <4>1
    <3>3. QED
      BY <3>1, <3>2
  <2>6. QED
    BY <2>3, <2>5, SeqEqual
<1>8. QED
  BY <1>4, <1>5, <1>6, <1>7

\* The renamed path itself becomes the new name.
LEMMA OntoSelf ==
    ASSUME NEW from \in Seq(Names), NEW to \in Seq(Names)
    PROVE  Onto(from, from, to) = to
<1>1. SubSeq(from, Len(from) + 1, Len(from)) = <<>>
  BY LenProperties, SubSeqEmpty
<1>2. QED
  BY <1>1, ConcatEmptySeq DEF Onto

\* A rename keeps what lies beneath what.
LEMMA OntoKeepsOrder ==
    ASSUME NEW q \in Seq(Names), NEW r \in Seq(Names),
           NEW from \in Seq(Names), NEW to \in Seq(Names),
           Beneath(q, r), Beneath(r, from)
    PROVE  Beneath(Onto(q, from, to), Onto(r, from, to))
<1> DEFINE x == Onto(q, from, to)
           y == Onto(r, from, to)
<1>1. Len(q) \in Nat /\ Len(r) \in Nat /\ Len(from) \in Nat /\ Len(to) \in Nat
  BY LenProperties
<1>2. Beneath(q, from)
  BY BeneathOrder
<1>3. /\ x \in Seq(Names) /\ Len(x) = Len(to) + Len(q) - Len(from)
      /\ \A i \in 1..(Len(q) - Len(from)) : x[Len(to) + i] = q[Len(from) + i]
      /\ \A i \in 1..Len(to) : x[i] = to[i]
  <2>1. x \in Seq(Names) /\ Beneath(x, to)
    BY <1>2, OntoIs
  <2>2. \A i \in 1..Len(to) : x[i] = to[i]
    BY <2>1, BeneathIs
  <2>3. QED
    BY <1>2, <2>1, <2>2, OntoIs, ZenonT(60)
<1>4. /\ y \in Seq(Names) /\ Len(y) = Len(to) + Len(r) - Len(from)
      /\ \A i \in 1..(Len(r) - Len(from)) : y[Len(to) + i] = r[Len(from) + i]
      /\ \A i \in 1..Len(to) : y[i] = to[i]
  <2>1. y \in Seq(Names) /\ Beneath(y, to)
    BY OntoIs
  <2>2. \A i \in 1..Len(to) : y[i] = to[i]
    BY <2>1, BeneathIs
  <2>3. QED
    BY <2>1, <2>2, OntoIs, ZenonT(60)
<1>5. Len(from) <= Len(r) /\ Len(r) <= Len(q) /\ \A i \in 1..Len(r) : q[i] = r[i]
  BY BeneathIs
<1>6. ASSUME NEW i \in 1..Len(y) PROVE x[i] = y[i]
  <2>1. CASE i <= Len(to)
    BY <1>1, <1>3, <1>4, <2>1
  <2>2. CASE ~(i <= Len(to))
    <3> DEFINE k == i - Len(to)
    <3>1. /\ k \in 1..(Len(r) - Len(from)) /\ k \in 1..(Len(q) - Len(from))
          /\ Len(to) + k = i /\ Len(from) + k \in 1..Len(r)
      BY <1>1, <1>4, <1>5, <2>2
    <3>2. x[Len(to) + k] = q[Len(from) + k] /\ y[Len(to) + k] = r[Len(from) + k]
      BY <1>3, <1>4, <3>1
    <3>3. QED
      BY <1>5, <3>1, <3>2
  <2>3. QED
    BY <2>1, <2>2
<1>7. x \in Seq(Names) /\ y \in Seq(Names) /\ Len(y) <= Len(x)
  BY <1>1, <1>3, <1>4, <1>5
<1> HIDE DEF x, y
<1>8. Beneath(x, y)
  BY <1>6, <1>7, BeneathIs
<1>9. QED
  BY <1>8 DEF x, y

\* The same among places, with the ancestors of each.
LEMMA PlaceOrder ==
    /\ Places \subseteq Seq(Names)
    /\ \A p \in Places : Beneath(p, p)
    /\ \A p, q \in Places : Beneath(p, q) /\ Beneath(q, p) => p = q
    /\ \A p, q, r \in Places : Beneath(p, q) /\ Beneath(q, r) => Beneath(p, r)
    /\ \A p, q, r \in Places : Beneath(p, q) /\ Beneath(p, r) => Beneath(q, r) \/ Beneath(r, q)
    /\ \A p \in Places : Ancestors(p) \subseteq Places
    /\ \A p, a \in Places : a \in Ancestors(p) <=> a # p /\ Beneath(p, a)
<1>1. Places \subseteq Seq(Names)
  BY PlaceSeq
<1>2. \A p \in Places : Ancestors(p) = {a \in Places : a # p /\ Beneath(p, a)}
  BY AncestorsAre
<1>3. QED
  BY <1>1, <1>2, BeneathOrder

--------------------------------------------------------------------------------
(* Trees *)

\* What an entry is, and the entries made from one.
LEMMA EntryIs ==
    ASSUME NEW e \in Entries
    PROVE  /\ e # None
           /\ e.kind \in {"dir", "file", "symlink"} /\ e.links \subseteq Places /\ e.id \in Nat
           /\ e.content \in Contents \cup {NoContent}
           /\ \A c \in Contents \cup {NoContent} :
                  LET f == [e EXCEPT !.content = c]
                  IN  f \in Entries /\ f.id = e.id /\ f.links = e.links /\ f.kind = e.kind
                      /\ f.content = c
           /\ \A g \in SUBSET Places :
                  LET f == [e EXCEPT !.links = g]
                  IN  f \in Entries /\ f.id = e.id /\ f.links = g /\ f.kind = e.kind
           /\ \A m \in Metas :
                  LET f == [e EXCEPT !.meta = m]
                  IN  f \in Entries /\ f.id = e.id /\ f.links = e.links /\ f.kind = e.kind
           /\ DigestOf(e) = [e EXCEPT !.id = 0]
           /\ DigestOf(e) \in Entries /\ DigestOf(e) # None /\ DigestOf(e).kind = e.kind
<1>1. e # None
  BY NoneIsNoEntry
<1>2. e \in [kind : {"dir", "file", "symlink"}, meta : Metas, content : Contents \cup {NoContent},
             links : SUBSET Places, id : Nat]
  BY DEF Entries
<1>3. /\ e.kind \in {"dir", "file", "symlink"} /\ e.links \subseteq Places /\ e.id \in Nat
      /\ e.content \in Contents \cup {NoContent}
  BY <1>2
<1>4. \A c \in Contents \cup {NoContent} :
         LET f == [e EXCEPT !.content = c]
         IN  f \in Entries /\ f.id = e.id /\ f.links = e.links /\ f.kind = e.kind
             /\ f.content = c
  BY <1>2 DEF Entries
<1>5. \A g \in SUBSET Places :
         LET f == [e EXCEPT !.links = g]
         IN  f \in Entries /\ f.id = e.id /\ f.links = g /\ f.kind = e.kind
  BY <1>2 DEF Entries
<1>6. \A m \in Metas :
         LET f == [e EXCEPT !.meta = m]
         IN  f \in Entries /\ f.id = e.id /\ f.links = e.links /\ f.kind = e.kind
  BY <1>2 DEF Entries
<1>7. DigestOf(e) = [e EXCEPT !.id = 0]
  BY <1>1 DEF DigestOf
<1>8. [e EXCEPT !.id = 0] \in Entries /\ [e EXCEPT !.id = 0].kind = e.kind
  BY <1>2 DEF Entries
<1>9. QED
  BY <1>1, <1>3, <1>4, <1>5, <1>6, <1>7, <1>8, NoneIsNoEntry

\* The entries an edit makes.
LEMMA EntryMade ==
    ASSUME NEW kind \in {"dir", "file", "symlink"}, NEW c \in Contents \cup {NoContent},
           NEW id \in Nat
    PROVE  /\ Entry(kind, 0, c, {}, id) \in Entries
           /\ Entry(kind, 0, c, {}, id).kind = kind
           /\ Entry(kind, 0, c, {}, id).content = c
           /\ Entry(kind, 0, c, {}, id).links = {}
BY MountAssumption DEF Entry, Entries

\* A new directory is a directory entry without links.
LEMMA NewDirIs ==
    ASSUME born \in Nat
    PROVE  /\ NewDir(born + 1) \in Entries /\ NewDir(born + 1) # None
           /\ NewDir(born + 1).kind = "dir" /\ NewDir(born + 1).links = {}
<1>1. born + 1 \in Nat /\ NoContent \in Contents \cup {NoContent}
  OBVIOUS
<1>2. QED
  BY <1>1, EntryMade, NoneIsNoEntry DEF NewDir

\* Placing clears nothing when what is replaced is no directory.
LEMMA PlacedIs ==
    ASSUME NEW t \in Maps, Rooted(t), NEW ps \in SUBSET Places, NEW e,
           Reachable(t, ps), \A p \in ps : ~Is(t, p, "dir")
    PROVE  /\ Placed(t, ps, e) = [q \in Places |-> Placed(t, ps, e)[q]]
           /\ \A q \in Places :
                 Placed(t, ps, e)[q] =
                    IF q \in ps THEN e
                    ELSE IF t[q] = None /\ \E p \in ps : Beneath(p, q) THEN NewDir(born + 1)
                    ELSE t[q]
<1> DEFINE u == Placed(t, ps, e)
<1>1. \A q \in Places :
         u[q] = IF q \in ps THEN e
                ELSE IF \E p \in ps : Beneath(q, p) THEN None
                ELSE IF t[q] = None /\ \E p \in ps : Beneath(p, q) THEN NewDir(born + 1)
                ELSE t[q]
  BY DEF Placed
<1>2. ASSUME NEW q \in Places, q \notin ps, NEW p \in ps, Beneath(q, p)
      PROVE  t[q] = None /\ ~\E r \in ps : Beneath(r, q)
  <2>1. p \in Places /\ p \in Ancestors(q)
    BY <1>2, PlaceOrder
  <2>2. t[q] = None
    BY <2>1, <1>2 DEF Rooted
  <2>3. ASSUME NEW r \in ps, Beneath(r, q) PROVE FALSE
    <3>1. r \in Places /\ p # r
      BY <1>2, <2>1, <2>3, PlaceOrder
    <3>2. p \in Ancestors(r)
      BY <1>2, <2>1, <2>3, <3>1, PlaceOrder
    <3>3. QED
      BY <3>2 DEF Reachable
  <2>4. QED
    BY <2>2, <2>3
<1>3. u = [q \in Places |-> u[q]]
  BY DEF Placed
<1>4. \A q \in Places :
         u[q] = IF q \in ps THEN e
                ELSE IF t[q] = None /\ \E p \in ps : Beneath(p, q) THEN NewDir(born + 1)
                ELSE t[q]
  BY <1>1, <1>2
<1>5. QED
  BY <1>3, <1>4

\* An entry placed over no directory, with the links of its group, leaves a tree.
LEMMA PlacedTree ==
    ASSUME NEW t \in Maps, Rooted(t), NEW ps \in SUBSET Places, NEW e \in Entries,
           Reachable(t, ps), \A p \in ps : ~Is(t, p, "dir"),
           e.links = {} \/ (e.kind = "file" /\ e.links = ps),
           \A p \in Places \ ps : t[p] # None /\ t[p].links # {} =>
               /\ t[p].kind = "file" /\ p \in t[p].links /\ t[p].links \cap ps = {}
               /\ \A q \in t[p].links : t[q] = t[p],
           born \in Nat
    PROVE  Placed(t, ps, e) \in Trees
<1> DEFINE u == Placed(t, ps, e)
           d == NewDir(born + 1)
<1>1. d \in Entries /\ d # None /\ d.kind = "dir" /\ d.links = {}
  BY NewDirIs
<1>2. /\ u = [q \in Places |-> u[q]]
      /\ \A q \in Places :
            u[q] = IF q \in ps THEN e
                   ELSE IF t[q] = None /\ \E p \in ps : Beneath(p, q) THEN d ELSE t[q]
  BY PlacedIs
<1>3. \A q \in Places : t[q] \in Entries \cup {None}
  BY DEF Maps
<1> HIDE DEF u, d
<1>4. \A q \in Places : u[q] \in Entries \cup {None}
  BY <1>1, <1>2, <1>3
<1>5. u \in Maps
  BY <1>2, <1>4 DEF Maps
<1>6. ASSUME NEW p \in Places, u[p] # None, NEW a \in Ancestors(p)
      PROVE  Is(u, a, "dir")
  <2>1. a \in Places /\ a # p /\ Beneath(p, a)
    BY <1>6, PlaceOrder
  <2>2. CASE t[p] # None /\ p \notin ps
    <3>1. Is(t, a, "dir")
      BY <2>2, <1>6 DEF Rooted
    <3>2. a \notin ps
      BY <3>1
    <3>3. u[a] = t[a]
      BY <1>2, <2>1, <3>1, <3>2 DEF Is
    <3>4. QED
      BY <3>1, <3>3 DEF Is
  <2>3. CASE ~(t[p] # None /\ p \notin ps)
    <3>1. PICK r \in ps : r = p \/ Beneath(r, p)
      BY <1>2, <1>6, <2>3
    <3>2. r \in Places /\ Beneath(r, a) /\ a # r
      BY <2>1, <3>1, PlaceOrder
    <3>3. a \in Ancestors(r)
      BY <2>1, <3>2, PlaceOrder
    <3>4. a \notin ps /\ (t[a] = None \/ Is(t, a, "dir"))
      BY <3>3 DEF Reachable
    <3>5. u[a] = d \/ (u[a] = t[a] /\ Is(t, a, "dir"))
      BY <1>2, <2>1, <3>2, <3>4
    <3>6. QED
      BY <1>1, <3>5 DEF Is
  <2>4. QED
    BY <2>2, <2>3
<1>7. ASSUME NEW p \in Places, u[p] # None, u[p].links # {}
      PROVE  /\ u[p].kind = "file" /\ p \in u[p].links
             /\ \A q \in u[p].links : u[q] = u[p]
  <2>1. CASE p \in ps
    <3>1. u[p] = e
      BY <1>2, <2>1
    <3>2. e.kind = "file" /\ e.links = ps
      BY <1>7, <3>1
    <3>3. \A q \in ps : u[q] = e
      BY <1>2
    <3>4. QED
      BY <2>1, <3>1, <3>2, <3>3
  <2>2. CASE p \notin ps
    <3>1. u[p] = t[p]
      BY <1>1, <1>2, <1>7, <2>2
    <3>2. /\ t[p].kind = "file" /\ p \in t[p].links /\ t[p].links \cap ps = {}
          /\ \A q \in t[p].links : t[q] = t[p]
      BY <1>7, <2>2, <3>1
    <3>3. t[p].links \subseteq Places
      BY <1>3, <1>7, <3>1, EntryIs
    <3>4. \A q \in t[p].links : q \in Places /\ q \notin ps /\ t[q] # None
      BY <1>7, <3>1, <3>2, <3>3
    <3>5. \A q \in t[p].links : u[q] = t[q]
      BY <1>2, <3>4
    <3>6. QED
      BY <3>1, <3>2, <3>5
  <2>3. QED
    BY <2>1, <2>2
<1>8. Rooted(u)
  BY <1>6 DEF Rooted
<1>9. Grouped(u)
  BY <1>7 DEF Grouped
<1>10. QED
  BY <1>5, <1>8, <1>9 DEF Trees, Maps, u

\* Every file or directory of t among ps is still itself in u.
Keeps(t, u, ps) == \A q \in ps : t[q] # None => u[q] # None /\ u[q].id = t[q].id

\* What the hypotheses on a tree say of one place.
LEMMA TreeAt ==
    ASSUME NEW t \in Trees, NEW p \in Places, t[p] # None
    PROVE  /\ t[p] \in Entries
           /\ t[p].links \subseteq Places
           /\ t[p].kind # "file" => t[p].links = {}
           /\ \A q \in t[p].links : p \in t[p].links /\ t[q] = t[p]
           /\ \A q \in Places : t[q] # None /\ t[q].links \cap t[p].links # {} => t[q] = t[p]
           /\ \A a \in Ancestors(p) : Is(t, a, "dir")
<1>1. t[p] \in Entries /\ \A q \in Places : t[q] # None => t[q] \in Entries
  BY DEF Trees, Maps
<1>2. Grouped(t) /\ Rooted(t)
  BY DEF Trees
<1>3. t[p].links \subseteq Places /\ \A q \in Places : t[q] # None => t[q].links \subseteq Places
  BY <1>1, EntryIs
<1>4. t[p].kind # "file" => t[p].links = {}
  BY <1>2 DEF Grouped
<1>5. \A q \in t[p].links : p \in t[p].links /\ t[q] = t[p]
  BY <1>2 DEF Grouped
<1>6. ASSUME NEW q \in Places, t[q] # None, NEW r \in t[q].links \cap t[p].links
      PROVE  t[q] = t[p]
  <2>1. t[r] = t[q]
    BY <1>2, <1>6 DEF Grouped
  <2>2. QED
    BY <1>5, <1>6, <2>1
<1>7. \A a \in Ancestors(p) : Is(t, a, "dir")
  BY <1>2 DEF Rooted
<1>8. QED
  BY <1>1, <1>3, <1>4, <1>5, <1>6, <1>7

\* write_file leaves a tree, keeps every file itself, puts the bytes at the path and
\* changes no other file than the one it found there.
LEMMA WrittenIs ==
    ASSUME NEW t \in Trees, NEW p \in Places, NEW c \in Contents \cup {NoContent},
           t[p] = None \/ Is(t, p, "file"), Written(t, p, c).fits, born \in Nat
    PROVE  LET w == Written(t, p, c).tree
           IN  /\ w \in Trees
               /\ Keeps(t, w, Places)
               /\ w[p] # None /\ w[p].content = c
               /\ \A q \in Places : w[q] # t[q] =>
                      q = p \/ (t[p] = None /\ Beneath(p, q)) \/ (t[p] # None /\ t[q] = t[p])
<1> DEFINE e == IF Is(t, p, "file") THEN [t[p] EXCEPT !.content = c]
                ELSE Entry("file", 0, c, {}, born + 1)
           ps == IF e.links = {} THEN {p} ELSE e.links
           w == Placed(t, ps, e)
<1>1. Written(t, p, c).fits = Reachable(t, ps) /\ Written(t, p, c).tree = w
  BY DEF Written
<1>2. t \in Maps /\ Rooted(t) /\ Grouped(t)
  BY DEF Trees
<1>3. /\ e \in Entries /\ e.kind = "file" /\ e.content = c /\ e # None
      /\ t[p] = None => e.links = {}
      /\ t[p] # None => e.links = t[p].links /\ e.id = t[p].id
  <2>1. CASE t[p] = None
    <3>1. e = Entry("file", 0, c, {}, born + 1) /\ born + 1 \in Nat
      BY <2>1 DEF Is
    <3>2. /\ Entry("file", 0, c, {}, born + 1) \in Entries
          /\ Entry("file", 0, c, {}, born + 1).kind = "file"
          /\ Entry("file", 0, c, {}, born + 1).content = c
          /\ Entry("file", 0, c, {}, born + 1).links = {}
      BY <3>1, EntryMade
    <3> HIDE DEF e
    <3>3. QED
      BY <2>1, <3>1, <3>2, NoneIsNoEntry
  <2>2. CASE t[p] # None
    <3>1. e = [t[p] EXCEPT !.content = c] /\ t[p].kind = "file" /\ t[p] \in Entries
      BY <2>2, TreeAt DEF Is
    <3>2. QED
      BY <2>2, <3>1, EntryIs, NoneIsNoEntry
  <2>3. QED
    BY <2>1, <2>2
<1> HIDE DEF e
<1>4. ps \subseteq Places /\ p \in ps
  BY <1>3, TreeAt
<1>5. ASSUME NEW q \in ps PROVE t[q] = t[p]
  BY <1>3, <1>5, TreeAt
<1>6. \A q \in ps : ~Is(t, q, "dir")
  BY <1>5 DEF Is
<1>7. ASSUME NEW q \in Places \ ps, t[q] # None, t[q].links # {}
      PROVE  /\ t[q].kind = "file" /\ q \in t[q].links /\ t[q].links \cap ps = {}
             /\ \A r \in t[q].links : t[r] = t[q]
  <2>1. t[q].kind = "file" /\ q \in t[q].links /\ \A r \in t[q].links : t[r] = t[q]
    BY <1>2, <1>7 DEF Grouped
  <2>2. t[q].links \cap ps = {}
    <3> SUFFICES ASSUME NEW r \in t[q].links, r \in ps PROVE FALSE
      OBVIOUS
    <3>1. t[r] = t[q] /\ t[r] = t[p]
      BY <1>5, <2>1
    <3>2. e.links = t[q].links
      BY <1>3, <1>7, <3>1
    <3>3. QED
      BY <1>7, <2>1, <3>2
  <2>3. QED
    BY <2>1, <2>2
<1> HIDE DEF ps
<1>8. Reachable(t, ps)
  BY <1>1
<1>9. e.links = {} \/ (e.kind = "file" /\ e.links = ps)
  BY <1>3 DEF ps
<1>10. w \in Trees
  BY <1>2, <1>3, <1>4, <1>6, <1>7, <1>8, <1>9, PlacedTree
<1>11. \A q \in Places :
         w[q] = IF q \in ps THEN e
                ELSE IF t[q] = None /\ \E r \in ps : Beneath(r, q) THEN NewDir(born + 1)
                ELSE t[q]
  BY <1>2, <1>4, <1>6, <1>8, PlacedIs
<1> HIDE DEF w
<1>12. Keeps(t, w, Places)
  BY <1>3, <1>5, <1>11 DEF Keeps
<1>13. w[p] # None /\ w[p].content = c
  BY <1>3, <1>4, <1>11
<1>14. ASSUME NEW q \in Places, w[q] # t[q]
       PROVE  q = p \/ (t[p] = None /\ Beneath(p, q)) \/ (t[p] # None /\ t[q] = t[p])
  <2>1. CASE t[p] # None
    <3>1. CASE q \in ps
      BY <1>5, <2>1, <3>1
    <3>2. CASE q \notin ps
      <4>1. PICK r \in ps : t[q] = None /\ Beneath(r, q)
        BY <1>11, <1>14, <3>2
      <4>2. r \in Places /\ r # q /\ t[r] # None
        BY <1>4, <1>5, <2>1, <3>2
      <4>3. q \in Ancestors(r)
        BY <4>1, <4>2, PlaceOrder
      <4>4. Is(t, q, "dir")
        BY <4>2, <4>3, TreeAt
      <4>5. QED
        BY <4>1, <4>4 DEF Is
    <3>3. QED
      BY <3>1, <3>2
  <2>2. CASE t[p] = None
    <3>1. ps = {p}
      BY <1>3, <2>2 DEF ps
    <3>2. QED
      BY <1>11, <1>14, <2>2, <3>1
  <2>3. QED
    BY <2>1, <2>2
<1>15. QED
  BY <1>1, <1>10, <1>12, <1>13, <1>14

\* An entry goes with nothing beneath it and no other name: the rest is a tree.
LEMMA CutIs ==
    ASSUME NEW t \in Trees, NEW p \in Places, t[p] # None, t[p].links \subseteq {p},
           ~Is(t, p, "dir") \/ Childless(t, p)
    PROVE  LET w == [t EXCEPT ![p] = None]
           IN  w \in Trees /\ Keeps(t, w, Places \ {p})
<1> DEFINE w == [t EXCEPT ![p] = None]
<1>1. t \in Maps /\ Rooted(t) /\ Grouped(t)
  BY DEF Trees
<1>2. w \in Maps /\ w[p] = None /\ \A q \in Places \ {p} : w[q] = t[q]
  BY <1>1 DEF Maps
<1> HIDE DEF w
<1>3. ASSUME NEW q \in Places, w[q] # None, NEW a \in Ancestors(q)
      PROVE  Is(w, a, "dir")
  <2>1. q # p /\ t[q] # None /\ a \in Places /\ a # q /\ Beneath(q, a)
    BY <1>2, <1>3, PlaceOrder
  <2>2. Is(t, a, "dir")
    BY <1>1, <1>3, <2>1 DEF Rooted
  <2>3. a # p
    BY <2>1, <2>2 DEF Childless
  <2>4. QED
    BY <1>2, <2>1, <2>2, <2>3 DEF Is
<1>4. ASSUME NEW q \in Places, w[q] # None, w[q].links # {}
      PROVE  /\ w[q].kind = "file" /\ q \in w[q].links
             /\ \A r \in w[q].links : w[r] = w[q]
  <2>1. q # p /\ w[q] = t[q] /\ t[q] # None
    BY <1>2, <1>4
  <2>2. t[q].kind = "file" /\ q \in t[q].links /\ \A r \in t[q].links : t[r] = t[q]
    BY <1>1, <1>4, <2>1 DEF Grouped
  <2>3. t[q].links \subseteq Places
    BY <2>1, TreeAt
  <2>4. p \notin t[q].links
    <3> SUFFICES ASSUME p \in t[q].links PROVE FALSE
      OBVIOUS
    <3>1. t[p] = t[q]
      BY <2>2
    <3>2. QED
      BY <2>1, <2>2, <3>1
  <2>5. \A r \in t[q].links : w[r] = t[r]
    BY <1>2, <2>3, <2>4
  <2>6. QED
    BY <2>1, <2>2, <2>5
<1>5. w \in Trees
  BY <1>2, <1>3, <1>4 DEF Trees, Rooted, Grouped
<1>6. Keeps(t, w, Places \ {p})
  BY <1>2 DEF Keeps
<1>7. QED
  BY <1>5, <1>6 DEF w

\* unlink keeps every other file, the other names of this one among them.
LEMMA UnlinkedIs ==
    ASSUME NEW t \in Trees, NEW p \in Places, t[p] # None, ~Is(t, p, "dir"),
           Reachable([t EXCEPT ![p] = None], t[p].links \ {p}), born \in Nat
    PROVE  Unlinked(t, p) \in Trees /\ Keeps(t, Unlinked(t, p), Places \ {p})
<1> DEFINE rest == t[p].links \ {p}
           cut == [t EXCEPT ![p] = None]
           group == IF Cardinality(rest) > 1 THEN rest ELSE {}
           e == [t[p] EXCEPT !.links = group]
<1>1. Unlinked(t, p) = IF rest = {} THEN cut ELSE Placed(cut, rest, e)
  BY DEF Unlinked
<1>2. CASE rest = {}
  BY <1>1, <1>2, CutIs
<1>3. CASE rest # {}
  <2>1. t \in Maps /\ Rooted(t) /\ Grouped(t)
    BY DEF Trees
  <2>2. cut \in Maps /\ cut[p] = None /\ \A q \in Places \ {p} : cut[q] = t[q]
    BY <2>1 DEF Maps
  <2>3. t[p] \in Entries /\ rest \subseteq Places /\ t[p].kind = "file"
    BY <1>3, TreeAt
  <2>4. group = {} \/ group = rest
    OBVIOUS
  <2> HIDE DEF group
  <2>5. /\ e \in Entries /\ e.kind = "file" /\ e.id = t[p].id
        /\ e.links = {} \/ (e.kind = "file" /\ e.links = rest)
    <3>1. group \in SUBSET Places
      BY <2>3, <2>4
    <3>2. e \in Entries /\ e.id = t[p].id /\ e.links = group /\ e.kind = t[p].kind
      BY <2>3, <3>1, EntryIs, SMTT(60)
    <3>3. QED
      BY <2>3, <2>4, <3>2
  <2>6. e # None
    BY <2>5, NoneIsNoEntry
  <2> HIDE DEF e, cut
  <2>7. Rooted(cut)
    <3> SUFFICES ASSUME NEW q \in Places, cut[q] # None, NEW a \in Ancestors(q)
                 PROVE  Is(cut, a, "dir")
      BY DEF Rooted
    <3>1. q # p /\ t[q] # None /\ a \in Places
      BY <2>2, PlaceOrder
    <3>2. Is(t, a, "dir")
      BY <2>1, <3>1 DEF Rooted
    <3>3. a # p
      BY <3>2
    <3>4. QED
      BY <2>2, <3>1, <3>2, <3>3 DEF Is
  <2>8. \A q \in rest : t[q] = t[p] /\ cut[q] = t[p]
    BY <2>2, <2>3, TreeAt
  <2>9. \A q \in rest : ~Is(cut, q, "dir")
    BY <2>3, <2>8 DEF Is
  <2>10. ASSUME NEW q \in Places \ rest, cut[q] # None, cut[q].links # {}
         PROVE  /\ cut[q].kind = "file" /\ q \in cut[q].links /\ cut[q].links \cap rest = {}
                /\ \A r \in cut[q].links : cut[r] = cut[q]
    <3>1. q # p /\ cut[q] = t[q] /\ t[q] # None /\ t[q].links # {}
      BY <2>2, <2>10
    <3>2. t[q].kind = "file" /\ q \in t[q].links /\ \A r \in t[q].links : t[r] = t[q]
      BY <2>1, <3>1 DEF Grouped
    <3>3. t[q].links \subseteq Places
      BY <3>1, TreeAt
    <3>4. t[q].links \cap t[p].links = {}
      BY <2>10, <3>1, <3>2, TreeAt
    <3>5. p \notin t[q].links
      BY <1>3, <3>2, <3>1, <2>10
    <3>6. \A r \in t[q].links : cut[r] = t[r]
      BY <2>2, <3>3, <3>5
    <3>7. QED
      BY <3>1, <3>2, <3>4, <3>6
  <2>11. Reachable(cut, rest)
    BY DEF cut
  <2> HIDE DEF rest
  <2>12. Placed(cut, rest, e) \in Trees
    BY <2>2, <2>3, <2>5, <2>7, <2>9, <2>10, <2>11, PlacedTree
  <2>13. \A q \in Places :
           Placed(cut, rest, e)[q] =
               IF q \in rest THEN e
               ELSE IF cut[q] = None /\ \E r \in rest : Beneath(r, q) THEN NewDir(born + 1)
               ELSE cut[q]
    BY <2>2, <2>3, <2>7, <2>9, <2>11, PlacedIs
  <2>14. Keeps(t, Placed(cut, rest, e), Places \ {p})
    BY <2>2, <2>5, <2>6, <2>8, <2>13 DEF Keeps
  <2>15. QED
    BY <1>1, <1>3, <2>12, <2>14 DEF cut
<1>4. QED
  BY <1>2, <1>3

\* A new entry where there was none.
LEMMA MadeIs ==
    ASSUME NEW t \in Trees, NEW p \in Places, NEW e \in Entries, e.links = {},
           t[p] = None, Reachable(t, {p}), born \in Nat
    PROVE  Placed(t, {p}, e) \in Trees /\ Keeps(t, Placed(t, {p}, e), Places)
<1>1. t \in Maps /\ Rooted(t) /\ {p} \in SUBSET Places /\ \A q \in {p} : ~Is(t, q, "dir")
  BY DEF Trees, Is
<1>2. ASSUME NEW q \in Places \ {p}, t[q] # None, t[q].links # {}
      PROVE  /\ t[q].kind = "file" /\ q \in t[q].links /\ t[q].links \cap {p} = {}
             /\ \A r \in t[q].links : t[r] = t[q]
  BY <1>2 DEF Trees, Grouped
<1>3. Placed(t, {p}, e) \in Trees
  BY <1>1, <1>2, PlacedTree
<1>4. \A q \in Places :
         Placed(t, {p}, e)[q] =
            IF q \in {p} THEN e
            ELSE IF t[q] = None /\ \E r \in {p} : Beneath(r, q) THEN NewDir(born + 1)
            ELSE t[q]
  BY <1>1, PlacedIs
<1>5. Keeps(t, Placed(t, {p}, e), Places)
  BY <1>4 DEF Keeps
<1>6. QED
  BY <1>3, <1>5

\* link gives the file one more name and changes no other file.
LEMMA LinkedIs ==
    ASSUME NEW t \in Trees, NEW p \in Places, NEW new \in Places,
           Is(t, p, "file"), t[new] = None, Reachable(t, t[p].links \cup {p, new}), born \in Nat
    PROVE  LET group == t[p].links \cup {p, new}
               w == Placed(t, group, [t[p] EXCEPT !.links = group])
           IN  w \in Trees /\ Keeps(t, w, Places)
<1> DEFINE group == t[p].links \cup {p, new}
           e == [t[p] EXCEPT !.links = group]
           w == Placed(t, group, e)
<1>1. t \in Maps /\ Rooted(t) /\ Grouped(t) /\ t[p] # None /\ t[p].kind = "file"
  BY DEF Trees, Is
<1>2. t[p] \in Entries /\ group \in SUBSET Places
  BY <1>1, TreeAt
<1>3. e \in Entries /\ e.kind = "file" /\ e.links = group /\ e.id = t[p].id /\ e # None
  <2>1. e \in Entries /\ e.kind = t[p].kind /\ e.links = group /\ e.id = t[p].id
    BY <1>2, EntryIs
  <2>2. QED
    BY <1>1, <2>1, NoneIsNoEntry
<1> HIDE DEF e
<1>4. \A q \in group \ {new} : t[q] = t[p]
  BY <1>1, TreeAt
<1>5. \A q \in group : ~Is(t, q, "dir")
  BY <1>1, <1>4 DEF Is
<1>6. ASSUME NEW q \in Places \ group, t[q] # None, t[q].links # {}
      PROVE  /\ t[q].kind = "file" /\ q \in t[q].links /\ t[q].links \cap group = {}
             /\ \A r \in t[q].links : t[r] = t[q]
  <2>1. t[q].kind = "file" /\ q \in t[q].links /\ \A r \in t[q].links : t[r] = t[q]
    BY <1>1, <1>6 DEF Grouped
  <2>2. ASSUME NEW r \in t[q].links, r \in group PROVE FALSE
    <3>1. r # new
      BY <1>6, <2>1, <2>2
    <3>2. t[q] = t[p]
      BY <1>4, <2>1, <2>2, <3>1
    <3>3. QED
      BY <1>6, <2>1, <3>2
  <2>3. QED
    BY <2>1, <2>2
<1>7. w \in Trees
  BY <1>1, <1>2, <1>3, <1>5, <1>6, PlacedTree
<1>8. \A q \in Places :
         w[q] = IF q \in group THEN e
                ELSE IF t[q] = None /\ \E r \in group : Beneath(r, q) THEN NewDir(born + 1)
                ELSE t[q]
  BY <1>1, <1>2, <1>5, PlacedIs
<1> HIDE DEF w
<1>9. Keeps(t, w, Places)
  BY <1>3, <1>4, <1>8 DEF Keeps
<1>10. QED
  BY <1>7, <1>9 DEF w, e

\* Another entry for a file without other names, or for what is no file.
LEMMA SwapIs ==
    ASSUME NEW t \in Trees, NEW p \in Places, NEW e \in Entries, t[p] # None,
           t[p].links = {}, e.links = {}, e.id = t[p].id, e.kind = t[p].kind
    PROVE  LET w == [t EXCEPT ![p] = e]
           IN  w \in Trees /\ Keeps(t, w, Places)
<1> DEFINE w == [t EXCEPT ![p] = e]
<1>1. t \in Maps /\ Rooted(t) /\ Grouped(t) /\ t[p] \in Entries
  BY TreeAt DEF Trees
<1>2. e \in Entries /\ e.id = t[p].id /\ e.links = {} /\ e.kind = t[p].kind /\ e # None
  BY NoneIsNoEntry
<1>3. w = [t EXCEPT ![p] = e]
  OBVIOUS
<1> HIDE DEF w
<1>4. w \in Maps /\ w[p] = e /\ \A q \in Places \ {p} : w[q] = t[q]
  BY <1>1, <1>2, <1>3 DEF Maps
<1>5. Rooted(w)
  <2> SUFFICES ASSUME NEW q \in Places, w[q] # None, NEW a \in Ancestors(q)
               PROVE  Is(w, a, "dir")
    BY DEF Rooted
  <2>1. t[q] # None /\ a \in Places
    BY <1>4, PlaceOrder
  <2>2. Is(t, a, "dir")
    BY <1>1, <2>1 DEF Rooted
  <2>3. QED
    BY <1>2, <1>4, <2>1, <2>2 DEF Is
<1>6. Grouped(w)
  <2> SUFFICES ASSUME NEW q \in Places, w[q] # None, w[q].links # {}
               PROVE  /\ w[q].kind = "file" /\ q \in w[q].links
                      /\ \A r \in w[q].links : w[r] = w[q]
    BY DEF Grouped
  <2>1. q # p /\ w[q] = t[q]
    BY <1>2, <1>4
  <2>2. t[q].kind = "file" /\ q \in t[q].links /\ \A r \in t[q].links : t[r] = t[q]
    BY <1>1, <2>1 DEF Grouped
  <2>3. t[q].links \subseteq Places /\ p \notin t[q].links
    BY <2>1, <2>2, TreeAt
  <2>4. \A r \in t[q].links : w[r] = t[r]
    BY <1>4, <2>3
  <2>5. QED
    BY <2>1, <2>2, <2>4
<1>7. Keeps(t, w, Places)
  BY <1>2, <1>4 DEF Keeps
<1>8. QED
  BY <1>4, <1>5, <1>6, <1>7 DEF Trees, w

\* Metadata or bytes of such an entry.
LEMMA AttrIs ==
    ASSUME NEW t \in Trees, NEW p \in Places, t[p] # None, t[p].links = {}
    PROVE  /\ \A m \in Metas : LET w == [t EXCEPT ![p].meta = m]
                               IN  w \in Trees /\ Keeps(t, w, Places)
           /\ \A c \in Contents \cup {NoContent} : [t EXCEPT ![p].content = c] \in Trees
<1>1. t[p] \in Entries /\ t = [q \in Places |-> t[q]]
  BY TreeAt DEF Trees, Maps
<1>2. ASSUME NEW m \in Metas
      PROVE  LET w == [t EXCEPT ![p].meta = m] IN w \in Trees /\ Keeps(t, w, Places)
  <2> DEFINE e == [t[p] EXCEPT !.meta = m]
  <2>1. e \in Entries /\ e.id = t[p].id /\ e.links = {} /\ e.kind = t[p].kind
    BY <1>1, EntryIs
  <2>2. [t EXCEPT ![p].meta = m] = [t EXCEPT ![p] = e]
    BY <1>1
  <2> HIDE DEF e
  <2>3. QED
    BY <2>1, <2>2, SwapIs
<1>3. ASSUME NEW c \in Contents \cup {NoContent}
      PROVE  [t EXCEPT ![p].content = c] \in Trees
  <2> DEFINE e == [t[p] EXCEPT !.content = c]
  <2>1. e \in Entries /\ e.id = t[p].id /\ e.links = {} /\ e.kind = t[p].kind
    BY <1>1, EntryIs
  <2>2. [t EXCEPT ![p].content = c] = [t EXCEPT ![p] = e]
    BY <1>1
  <2> HIDE DEF e
  <2>3. QED
    BY <2>1, <2>2, SwapIs
<1>4. QED
  BY <1>2, <1>3

\* The tree a rename leaves, as the action of Mount builds it.
Under(t, from) == {q \in Places : Beneath(q, from) /\ t[q] # None}
Landing(t, from, to) == {Onto(q, from, to) : q \in Under(t, from)}
Emptied(t, from) == [q \in Places |-> IF q \in Under(t, from) THEN None ELSE t[q]]
Shifted(t, from, to) ==
    [q \in Places |-> IF q \in Landing(t, from, to) THEN t[Onto(q, to, from)]
                      ELSE Placed(Emptied(t, from), {to}, None)[q]]

\* A rename moves what lies under the name as it is, leaves a tree, and changes
\* nothing else but what was at the new name.
LEMMA ShiftedIs ==
    ASSUME NEW t \in Trees, NEW from \in Places, NEW to \in Places,
           t[from] # None, ~Beneath(to, from), Landing(t, from, to) \subseteq Places,
           Is(t, to, "dir") => Childless(t, to), Reachable(t, {to}),
           \A q \in Under(t, from) \cup {to} : t[q] # None => t[q].links = {},
           born \in Nat
    PROVE  LET w == Shifted(t, from, to)
           IN  /\ w \in Trees
               /\ \A q \in Under(t, from) : w[Onto(q, from, to)] = t[q]
               /\ \A q \in Places \ {to} : t[q] # None /\ ~Beneath(q, from) => w[q] = t[q]
<1> DEFINE under == Under(t, from)
           onto == Landing(t, from, to)
           w == Shifted(t, from, to)
           d == NewDir(born + 1)
<1>1. t \in Maps /\ Rooted(t) /\ Grouped(t)
  BY DEF Trees
<1>2. d \in Entries /\ d # None /\ d.kind = "dir" /\ d.links = {}
  BY NewDirIs
<1>3. /\ w = [q \in Places |-> w[q]]
      /\ \A q \in onto : w[q] = t[Onto(q, to, from)]
      /\ \A q \in Places \ onto :
            w[q] = IF Beneath(q, to) THEN None
                   ELSE IF Beneath(q, from) THEN (IF Beneath(to, q) THEN d ELSE None)
                   ELSE IF t[q] = None /\ Beneath(to, q) THEN d
                   ELSE t[q]
  <2>1. \A q \in Places : w[q] = IF q \in onto THEN t[Onto(q, to, from)]
                                 ELSE Placed(Emptied(t, from), {to}, None)[q]
    BY DEF Shifted
  <2>2. \A q \in Places :
           Emptied(t, from)[q] = IF Beneath(q, from) THEN None ELSE t[q]
    BY DEF Emptied, Under
  <2>3. \A q \in Places :
           Placed(Emptied(t, from), {to}, None)[q] =
              IF Beneath(q, to) THEN None
              ELSE IF Emptied(t, from)[q] = None /\ Beneath(to, q) THEN d
              ELSE Emptied(t, from)[q]
    BY PlaceOrder DEF Placed
  <2>4. w = [q \in Places |-> w[q]]
    BY DEF Shifted
  <2> HIDE DEF w, onto, d
  <2>5. \A q \in onto : w[q] = t[Onto(q, to, from)]
    BY <2>1 DEF onto
  <2>6. QED
    BY <2>1, <2>2, <2>3, <2>4, <2>5
<1>4. \A q \in Places : t[q] \in Entries \cup {None}
  BY <1>1 DEF Maps
<1>5. \A q \in under : /\ Onto(q, from, to) \in onto /\ Beneath(Onto(q, from, to), to)
                       /\ Onto(Onto(q, from, to), to, from) = q
  BY PlaceOrder, OntoIs DEF Under, Landing
<1>6. ASSUME NEW q \in onto
      PROVE  /\ q \in Places /\ Beneath(q, to) /\ Onto(q, to, from) \in under
             /\ w[q] = t[Onto(q, to, from)] /\ Onto(Onto(q, to, from), from, to) = q
  <2>1. PICK r \in under : q = Onto(r, from, to)
    BY DEF Landing
  <2>2. QED
    BY <1>3, <1>5, <2>1
<1>7. \A q \in under : q \in Places /\ Beneath(q, from) /\ t[q] # None /\ t[q].links = {}
  BY DEF Under
<1>8. \A q \in Places : Beneath(q, from) /\ t[q] # None => q \in under
  BY DEF Under
<1>9. to \in onto
  <2>1. from \in under
    BY PlaceOrder DEF Under
  <2>2. Onto(from, from, to) = to
    BY PlaceOrder, OntoSelf
  <2>3. QED
    BY <1>5, <2>1, <2>2
<1> HIDE DEF under, onto, w, d
<1>10. ASSUME NEW q \in Places, q # to, Beneath(q, to) PROVE t[q] = None
  <2>1. SUFFICES ASSUME t[q] # None PROVE FALSE
    OBVIOUS
  <2>2. to \in Ancestors(q)
    BY <1>10, PlaceOrder
  <2>3. Is(t, to, "dir")
    BY <2>1, <2>2, TreeAt
  <2>4. QED
    BY <1>10, <2>1, <2>3 DEF Childless
<1>11. ASSUME NEW q \in Places \ {to}, t[q] # None, ~Beneath(q, from) PROVE w[q] = t[q]
  <2>1. ~Beneath(q, to)
    BY <1>10, <1>11
  <2>2. q \notin onto
    BY <1>6, <2>1
  <2>3. QED
    BY <1>3, <1>11, <2>1, <2>2
\* What lies above the new name is a directory.
<1>12. ASSUME NEW a \in Places, a # to, Beneath(to, a) PROVE Is(w, a, "dir")
  <2>1. a \in Ancestors(to)
    BY <1>12, PlaceOrder
  <2>2. t[a] = None \/ Is(t, a, "dir")
    BY <2>1 DEF Reachable
  <2>3. ~Beneath(a, to)
    BY <1>12, PlaceOrder
  <2>4. ~Beneath(a, from)
    BY <1>12, PlaceOrder
  <2>5. a \notin onto
    BY <1>6, <2>3
  <2>6. w[a] = IF t[a] = None THEN d ELSE t[a]
    BY <1>3, <1>12, <2>3, <2>4, <2>5
  <2>7. QED
    BY <1>2, <2>2, <2>6 DEF Is
<1>13. \A q \in Places : w[q] \in Entries \cup {None}
  <2> SUFFICES ASSUME NEW q \in Places PROVE w[q] \in Entries \cup {None}
    OBVIOUS
  <2>1. CASE q \in onto
    BY <1>4, <1>6, <1>7, <2>1
  <2>2. CASE q \notin onto
    BY <1>2, <1>3, <1>4, <2>2
  <2>3. QED
    BY <2>1, <2>2
<1>14. w \in Maps
  BY <1>3, <1>13 DEF Maps
<1>15. ASSUME NEW p \in Places, w[p] # None, NEW a \in Ancestors(p) PROVE Is(w, a, "dir")
  <2>1. a \in Places /\ a # p /\ Beneath(p, a)
    BY <1>15, PlaceOrder
  <2>2. CASE p \in onto
    <3> DEFINE u == Onto(p, to, from)
    <3>1. u \in under /\ p = Onto(u, from, to) /\ Beneath(p, to) /\ w[p] = t[u]
      BY <1>6, <2>2
    <3> HIDE DEF u
    <3>2. CASE Beneath(a, to)
      <4> DEFINE v == Onto(a, to, from)
      <4>1. p \in Seq(Names) /\ a \in Seq(Names) /\ to \in Seq(Names) /\ from \in Seq(Names)
        BY <2>1, PlaceOrder
      <4>2. /\ v \in Seq(Names) /\ Beneath(v, from) /\ Onto(v, from, to) = a
        BY <3>2, <4>1, OntoIs
      <4>3. Beneath(u, v)
        BY <2>1, <3>2, <4>1, OntoKeepsOrder DEF u
      <4>4. v # u
        BY <2>1, <3>1, <4>2
      <4> HIDE DEF v
      <4>5. v \in Ancestors(u)
        <5>1. u \in Places /\ u \in Seq(Names) /\ Len(u) \in Nat
          BY <1>7, <3>1, PlaceSeq
        <5>2. Len(v) \in Nat /\ Len(from) \in Nat /\ Len(from) >= 1 /\ Len(from) <= Len(v)
          BY <4>2, LenProperties, PlaceSeq DEF Beneath
        <5>3. Len(v) <= Len(u) /\ Upto(u, Len(v)) = v
          BY <4>3 DEF Beneath
        <5>4. Len(v) # Len(u)
          <6>1. SUFFICES ASSUME Len(v) = Len(u) PROVE FALSE
            OBVIOUS
          <6>2. Beneath(u, v) => \A i \in 1..Len(v) : u[i] = v[i]
            BY <4>2, <5>1, BeneathIs
          <6>3. QED
            BY <4>2, <4>3, <4>4, <5>1, <6>1, <6>2, SeqEqual
        <5>5. Len(v) \in 1..(Len(u) - 1)
          BY <5>1, <5>2, <5>3, <5>4
        <5>6. QED
          BY <5>3, <5>5 DEF Ancestors
      <4>6. v \in Places /\ Is(t, v, "dir")
        BY <1>7, <3>1, <4>5, PlaceOrder, TreeAt
      <4>7. v \in under
        BY <1>8, <4>2, <4>6 DEF Is
      <4>8. a \in onto /\ Onto(a, to, from) = v
        BY <1>5, <4>2, <4>7
      <4>9. w[a] = t[v]
        BY <1>6, <4>8
      <4>10. QED
        BY <4>6, <4>9 DEF Is
    <3>3. CASE ~Beneath(a, to)
      <4>1. Beneath(to, a) /\ a # to
        BY <2>1, <3>1, <3>3, PlaceOrder
      <4>2. QED
        BY <1>12, <2>1, <4>1
    <3>4. QED
      BY <3>2, <3>3
  <2>3. CASE p \notin onto
    <3>1. CASE Beneath(to, p)
      <4>1. Beneath(to, a) /\ a # to
        <5>1. p # to
          BY <1>9, <2>3
        <5>2. QED
          BY <2>1, <3>1, <5>1, PlaceOrder
      <4>2. QED
        BY <1>12, <2>1, <4>1
    <3>2. CASE ~Beneath(to, p)
      <4>1. ~Beneath(p, to) /\ ~Beneath(p, from) /\ w[p] = t[p] /\ t[p] # None
        BY <1>3, <1>15, <2>3, <3>2
      <4>2. Is(t, a, "dir") /\ ~Beneath(a, from) /\ a # to
        BY <2>1, <4>1, TreeAt, PlaceOrder
      <4>3. w[a] = t[a]
        BY <1>11, <2>1, <4>2 DEF Is
      <4>4. QED
        BY <4>2, <4>3 DEF Is
    <3>3. QED
      BY <3>1, <3>2
  <2>4. QED
    BY <2>2, <2>3
<1>16. ASSUME NEW p \in Places, w[p] # None, w[p].links # {}
       PROVE  /\ w[p].kind = "file" /\ p \in w[p].links
              /\ \A q \in w[p].links : w[q] = w[p]
  <2>1. p \notin onto
    BY <1>6, <1>7, <1>16
  <2>2. ~Beneath(p, from) /\ w[p] = t[p] /\ t[p] # None /\ p # to
    BY <1>2, <1>3, <1>9, <1>16, <2>1
  <2>3. t[p].kind = "file" /\ p \in t[p].links /\ \A q \in t[p].links : t[q] = t[p]
    BY <1>1, <1>16, <2>2 DEF Grouped
  <2>4. t[p].links \subseteq Places
    BY <2>2, TreeAt
  <2>5. ASSUME NEW q \in t[p].links PROVE w[q] = t[q]
    <3>1. q \in Places /\ t[q] # None /\ t[q].links # {}
      BY <1>16, <2>2, <2>3, <2>4
    <3>2. ~Beneath(q, from)
      BY <1>7, <1>8, <3>1
    <3>3. q # to
      BY <3>1
    <3>4. QED
      BY <1>11, <3>1, <3>2, <3>3
  <2>6. QED
    BY <2>2, <2>3, <2>5
<1>17. w \in Trees
  BY <1>14, <1>15, <1>16 DEF Trees, Rooted, Grouped
<1>18. \A q \in under : w[Onto(q, from, to)] = t[q]
  BY <1>5, <1>6
<1>19. QED
  BY <1>11, <1>17, <1>18 DEF w, under

--------------------------------------------------------------------------------
(* The table *)

\* The root is not a place a request can name.
LEMMA RootIsNoPlace == Root \notin Places
<1>1. Len(Root) = 0
  BY EmptySeq DEF Root
<1>2. QED
  BY <1>1, PlaceSeq

\* A section that leaves the table alone may do anything that keeps files themselves.
LEMMA TableStays ==
    ASSUME NumbersInv, MeantInv, UNCHANGED table, UNCHANGED off, Keeps(tree, tree', Places)
    PROVE  NumbersInv' /\ MeantInv'
<1>1. UNCHANGED <<toPath, toInode, nextInode, meant>>
  BY DEF table
<1>2. NumbersInv'
  BY <1>1 DEF NumbersInv
<1>4. MeantInv'
  BY <1>1 DEF MeantInv, Keeps
<1>5. QED
  BY <1>2, <1>4

\* A new number is for what the path shows.
LEMMA NumberForKeeps ==
    ASSUME NumbersInv, MeantInv, NEW p \in Places, tree[p] # None, NumberFor(p), tree' = tree,
           UNCHANGED off
    PROVE  NumbersInv' /\ MeantInv'
<1>1. CASE p \in DOMAIN toInode
  <2>1. UNCHANGED table /\ Keeps(tree, tree', Places)
    BY <1>1 DEF NumberFor, Keeps
  <2>2. QED
    BY <2>1, TableStays
<1>2. CASE p \notin DOMAIN toInode
  <2>1. /\ toPath' = [n \in DOMAIN toPath \cup {nextInode} |->
                         IF n = nextInode THEN p ELSE toPath[n]]
        /\ toInode' = [q \in DOMAIN toInode \cup {p} |->
                         IF q = p THEN nextInode ELSE toInode[q]]
        /\ nextInode' = nextInode + 1
        /\ meant' = [n \in DOMAIN meant \cup {nextInode} |->
                         IF n = nextInode THEN tree[p].id ELSE meant[n]]
    BY <1>2 DEF NumberFor
  <2>2. /\ nextInode \in Nat
        /\ \A n \in DOMAIN toPath \cup DOMAIN meant : n \in Nat /\ n < nextInode
        /\ DOMAIN toInode \subseteq Seq(Names)
        /\ \A q \in DOMAIN toInode :
            /\ toInode[q] \in DOMAIN toPath /\ toPath[toInode[q]] = q
            /\ toInode[q] \in DOMAIN meant
    BY DEF NumbersInv
  <2>3. /\ nextInode' \in Nat
        /\ \A n \in DOMAIN toPath' \cup DOMAIN meant' : n \in Nat /\ n < nextInode'
    BY <2>1, <2>2
  <2>4. DOMAIN toInode' \subseteq Seq(Names)
    BY <2>1, <2>2, PlaceSeq
  <2>5. ASSUME NEW q \in DOMAIN toInode', q # p
        PROVE  /\ q \in DOMAIN toInode /\ toInode'[q] = toInode[q] /\ toInode[q] # nextInode
    BY <2>1, <2>2, <2>5
  <2>6. toInode'[p] = nextInode /\ toPath'[nextInode] = p /\ meant'[nextInode] = tree[p].id
    BY <2>1
  <2>7. ASSUME NEW q \in DOMAIN toInode'
        PROVE  /\ toInode'[q] \in DOMAIN toPath' /\ toPath'[toInode'[q]] = q
               /\ toInode'[q] \in DOMAIN meant'
    <3>1. CASE q = p
      BY <2>1, <2>6, <3>1
    <3>2. CASE q # p
      BY <2>1, <2>2, <2>5, <3>2
    <3>3. QED
      BY <3>1, <3>2
  <2>8. NumbersInv'
    BY <2>3, <2>4, <2>7 DEF NumbersInv
  <2>9. ASSUME NEW q \in DOMAIN toInode' \ {Root}, toInode'[q] \notin off'
        PROVE  q \in Places /\ tree'[q] # None /\ tree'[q].id = meant'[toInode'[q]]
    <3>1. CASE q = p
      BY <2>6, <3>1
    <3>2. CASE q # p
      <4>1. /\ q \in DOMAIN toInode \ {Root} /\ meant'[toInode'[q]] = meant[toInode[q]]
            /\ toInode[q] \notin off
        BY <2>1, <2>2, <2>5, <2>9, <3>2
      <4>2. QED
        BY <4>1 DEF MeantInv
    <3>3. QED
      BY <3>1, <3>2
  <2>10. QED
    BY <2>8, <2>9 DEF MeantInv
<1>3. QED
  BY <1>1, <1>2

\* A name that goes takes its number with it.
LEMMA ForgetKeeps ==
    ASSUME NumbersInv, MeantInv, NEW p \in Places, Forget(p), Keeps(tree, tree', Places \ {p}),
           UNCHANGED off
    PROVE  NumbersInv' /\ MeantInv'
<1>0. /\ nextInode \in Nat
      /\ \A n \in DOMAIN toPath \cup DOMAIN meant : n \in Nat /\ n < nextInode
      /\ DOMAIN toInode \subseteq Seq(Names)
      /\ \A q \in DOMAIN toInode :
          /\ toInode[q] \in DOMAIN toPath /\ toPath[toInode[q]] = q
          /\ toInode[q] \in DOMAIN meant
  BY DEF NumbersInv
<1>1. CASE p \notin DOMAIN toInode
  <2>1. UNCHANGED <<toPath, toInode, nextInode, meant>>
    BY <1>1 DEF Forget, table
  <2>2. NumbersInv'
    BY <2>1 DEF NumbersInv
  <2>4. MeantInv'
    BY <1>1, <2>1 DEF MeantInv, Keeps
  <2>5. QED
    BY <2>2, <2>4
<1>2. CASE p \in DOMAIN toInode
  <2>1. /\ toPath' = [n \in DOMAIN toPath \ {toInode[p]} |-> toPath[n]]
        /\ toInode' = [q \in DOMAIN toInode \ {p} |-> toInode[q]]
        /\ UNCHANGED <<nextInode, meant>>
    BY <1>2 DEF Forget
  <2>2. ASSUME NEW q \in DOMAIN toInode'
        PROVE  /\ q \in DOMAIN toInode /\ q # p /\ toInode'[q] = toInode[q]
               /\ toInode[q] # toInode[p]
    <3>1. q \in DOMAIN toInode /\ q # p /\ toInode'[q] = toInode[q]
      BY <2>1, <2>2
    <3>2. toPath[toInode[q]] = q /\ toPath[toInode[p]] = p
      BY <1>0, <1>2, <3>1
    <3>3. QED
      BY <3>1, <3>2
  <2>3. ASSUME NEW q \in DOMAIN toInode'
        PROVE  /\ toInode'[q] \in DOMAIN toPath' /\ toPath'[toInode'[q]] = q
               /\ toInode'[q] \in DOMAIN meant'
    BY <1>0, <2>1, <2>2
  <2>4. DOMAIN toInode' \subseteq Seq(Names)
    BY <1>0, <2>1
  <2>5. \A n \in DOMAIN toPath' \cup DOMAIN meant' : n \in Nat /\ n < nextInode'
    BY <1>0, <2>1
  <2>6. NumbersInv'
    BY <1>0, <2>1, <2>3, <2>4, <2>5 DEF NumbersInv
  <2>7. ASSUME NEW q \in DOMAIN toInode' \ {Root}, toInode'[q] \notin off'
        PROVE  q \in Places /\ tree'[q] # None /\ tree'[q].id = meant'[toInode'[q]]
    <3>1. q \in DOMAIN toInode \ {Root} /\ q # p /\ toInode'[q] = toInode[q]
      BY <1>0, <2>2
    <3>2. q \in Places /\ tree[q] # None /\ tree[q].id = meant[toInode[q]]
      BY <2>7, <3>1 DEF MeantInv
    <3>3. QED
      BY <2>1, <3>1, <3>2 DEF Keeps
  <2>8. QED
    BY <2>6, <2>7 DEF MeantInv
<1>3. QED
  BY <1>1, <1>2

\* Numbers go with what a rename carries; the number of what it replaces stays
\* behind, and no path leads to it.
LEMMA RenumberKeeps ==
    ASSUME NumbersInv, MeantInv, NEW from \in Places, NEW to \in Places,
           from \in DOMAIN toInode, Renumber(from, to), UNCHANGED off,
           Landing(tree, from, to) \subseteq Places,
           \A q \in Under(tree, from) : tree'[Onto(q, from, to)] = tree[q],
           \A q \in Places \ {to} : tree[q] # None /\ ~Beneath(q, from) => tree'[q] = tree[q]
    PROVE  NumbersInv' /\ MeantInv'
<1> DEFINE old == Carried(from)
           new == {Onto(q, from, to) : q \in old}
<1>0. /\ nextInode \in Nat
      /\ \A n \in DOMAIN toPath \cup DOMAIN meant : n \in Nat /\ n < nextInode
      /\ DOMAIN toInode \subseteq Seq(Names)
      /\ \A q \in DOMAIN toInode :
          /\ toInode[q] \in DOMAIN toPath /\ toPath[toInode[q]] = q
          /\ toInode[q] \in DOMAIN meant
  BY DEF NumbersInv
<1>1. /\ toPath' = [n \in DOMAIN toPath |->
                       IF \E q \in old : toInode[q] = n THEN Onto(toPath[n], from, to)
                       ELSE toPath[n]]
      /\ toInode' = [q \in (DOMAIN toInode \ old) \cup new |->
                       IF q \in new THEN toInode[Onto(q, to, from)] ELSE toInode[q]]
      /\ UNCHANGED <<nextInode, meant>>
  BY DEF Renumber
<1>2. \A q \in old : /\ q \in DOMAIN toInode /\ q \in Seq(Names) /\ Beneath(q, from)
                     /\ toInode[q] \notin off =>
                            q \in Places /\ tree[q] # None /\ tree[q].id = meant[toInode[q]]
  <2> SUFFICES ASSUME NEW q \in old
               PROVE  /\ q \in DOMAIN toInode /\ q \in Seq(Names) /\ Beneath(q, from)
                      /\ toInode[q] \notin off =>
                             q \in Places /\ tree[q] # None /\ tree[q].id = meant[toInode[q]]
    OBVIOUS
  <2>1. q \in DOMAIN toInode /\ Beneath(q, from)
    BY DEF Carried
  <2>2. q # Root
    <3>1. Len(from) \in Nat /\ Len(from) >= 1 /\ Len(from) <= Len(q) /\ Len(Root) = 0
      BY <2>1, PlaceSeq, EmptySeq DEF Beneath, Root
    <3>2. QED
      BY <3>1
  <2>3. QED
    BY <1>0, <2>1, <2>2 DEF MeantInv
<1>3. \A q \in old : /\ Onto(q, from, to) \in Seq(Names)
                     /\ Onto(Onto(q, from, to), to, from) = q
                     /\ toInode[q] \notin off =>
                            /\ Onto(q, from, to) \in Places
                            /\ tree'[Onto(q, from, to)] = tree[q]
  <2> SUFFICES ASSUME NEW q \in old
               PROVE  /\ Onto(q, from, to) \in Seq(Names)
                      /\ Onto(Onto(q, from, to), to, from) = q
                      /\ toInode[q] \notin off =>
                             /\ Onto(q, from, to) \in Places
                             /\ tree'[Onto(q, from, to)] = tree[q]
    OBVIOUS
  <2>1. q \in Seq(Names) /\ Beneath(q, from) /\ from \in Seq(Names) /\ to \in Seq(Names)
    BY <1>2, PlaceSeq
  <2>2. Onto(q, from, to) \in Seq(Names) /\ Onto(Onto(q, from, to), to, from) = q
    BY <2>1, OntoIs
  <2>3. ASSUME toInode[q] \notin off
        PROVE  Onto(q, from, to) \in Places /\ tree'[Onto(q, from, to)] = tree[q]
    <3>1. q \in Under(tree, from)
      BY <1>2, <2>3 DEF Under
    <3>2. QED
      BY <3>1 DEF Landing
  <2>4. QED
    BY <2>2, <2>3
<1>4. ASSUME NEW p \in new
      PROVE  /\ p \in Seq(Names) /\ Onto(p, to, from) \in old
             /\ Onto(Onto(p, to, from), from, to) = p
             /\ toInode[Onto(p, to, from)] \notin off =>
                    p \in Places /\ tree'[p] = tree[Onto(p, to, from)]
  <2>1. PICK q \in old : p = Onto(q, from, to)
    OBVIOUS
  <2>2. QED
    BY <1>3, <2>1
<1>5. to \in new
  <2>1. from \in old
    BY PlaceOrder DEF Carried
  <2>2. Onto(from, from, to) = to
    BY PlaceOrder, OntoSelf
  <2>3. QED
    BY <2>1, <2>2
<1> HIDE DEF old, new
<1>6. ASSUME NEW p \in new
      PROVE  /\ toInode'[p] \in DOMAIN toPath' /\ toPath'[toInode'[p]] = p
             /\ toInode'[p] \in DOMAIN meant'
             /\ toInode'[p] \notin off' =>
                    p \in Places /\ tree'[p] # None /\ tree'[p].id = meant'[toInode'[p]]
  <2> DEFINE q == Onto(p, to, from)
  <2>1. /\ q \in old /\ Onto(q, from, to) = p
        /\ toInode[q] \notin off => p \in Places /\ tree'[p] = tree[q]
    BY <1>4
  <2>2. toInode'[p] = toInode[q]
    BY <1>1
  <2> HIDE DEF q
  <2>3. toInode[q] \in DOMAIN toPath /\ toPath[toInode[q]] = q /\ toInode[q] \in DOMAIN meant
    BY <1>0, <1>2, <2>1
  <2>4. toPath'[toInode[q]] = Onto(toPath[toInode[q]], from, to)
    BY <1>1, <2>1, <2>3
  <2>5. QED
    BY <1>1, <1>2, <2>1, <2>2, <2>3, <2>4
<1>7. ASSUME NEW p \in DOMAIN toInode', p \notin new
      PROVE  /\ p \in DOMAIN toInode /\ p \notin old
             /\ toInode'[p] \in DOMAIN toPath' /\ toPath'[toInode'[p]] = p
             /\ toInode'[p] \in DOMAIN meant' /\ toInode'[p] = toInode[p]
  <2>1. p \in DOMAIN toInode /\ p \notin old /\ toInode'[p] = toInode[p]
    BY <1>1, <1>7
  <2>2. toInode[p] \in DOMAIN toPath /\ toPath[toInode[p]] = p /\ toInode[p] \in DOMAIN meant
    BY <1>0, <2>1
  <2>3. ~\E q \in old : toInode[q] = toInode[p]
    BY <1>0, <1>2, <2>1, <2>2
  <2>4. toPath'[toInode[p]] = toPath[toInode[p]]
    BY <1>1, <2>2, <2>3
  <2>5. QED
    BY <1>1, <2>1, <2>2, <2>4
<1>8. NumbersInv'
  <2>1. DOMAIN toInode' \subseteq Seq(Names)
    BY <1>0, <1>1, <1>4
  <2>2. \A n \in DOMAIN toPath' \cup DOMAIN meant' : n \in Nat /\ n < nextInode'
    BY <1>0, <1>1
  <2>3. QED
    BY <1>0, <1>1, <1>6, <1>7, <2>1, <2>2 DEF NumbersInv
<1>9. ASSUME NEW p \in DOMAIN toInode' \ {Root}, toInode'[p] \notin off'
      PROVE  p \in Places /\ tree'[p] # None /\ tree'[p].id = meant'[toInode'[p]]
  <2>1. CASE p \in new
    BY <1>6, <1>9, <2>1
  <2>2. CASE p \notin new
    <3>1. p \in DOMAIN toInode /\ p \notin old /\ toInode'[p] = toInode[p]
      BY <1>0, <1>7, <2>2
    <3>2. p \in Places /\ tree[p] # None /\ tree[p].id = meant[toInode[p]]
      BY <1>9, <3>1 DEF MeantInv
    <3>3. p # to /\ ~Beneath(p, from)
      BY <1>5, <2>2, <3>1 DEF old, Carried
    <3>4. QED
      BY <1>1, <3>1, <3>2, <3>3
  <2>3. QED
    BY <2>1, <2>2
<1>10. QED
  BY <1>8, <1>9 DEF MeantInv

--------------------------------------------------------------------------------
(* Sections *)

\* Open files alone.
LEMMA HandlesStay == ASSUME HandlesInv, UNCHANGED <<handles, nextFh>> PROVE HandlesInv'
BY DEF HandlesInv

\* create makes its file.
LEMMA MakeKeeps ==
    ASSUME Sound, UNCHANGED <<head, off>>, NEW p \in Places, Make(p)
    PROVE  Sound'
<1>1. /\ tree[p] = None \/ Is(tree, p, "file")
      /\ Written(tree, p, NoContent).fits
      /\ tree' = Written(tree, p, NoContent).tree
      /\ born' = born + 1 /\ UNCHANGED <<handles, nextFh>> /\ UNCHANGED table
  BY DEF Make
<1>2. tree' \in Trees /\ Keeps(tree, tree', Places)
  BY <1>1, WrittenIs DEF Sound
<1>3. NumbersInv' /\ MeantInv'
  BY <1>1, <1>2, TableStays DEF Sound
<1>4. HandlesInv'
  BY <1>1, HandlesStay DEF Sound
<1>5. QED
  BY <1>1, <1>2, <1>3, <1>4 DEF Sound

\* A lookup answers with a number.
LEMMA AnswerKeeps ==
    ASSUME Sound, UNCHANGED <<head, off>>, NEW p \in Places, Answer(p)
    PROVE  Sound'
<1>1. /\ tree[p] # None /\ NumberFor(p) /\ tree' = tree
      /\ born' = born /\ UNCHANGED <<handles, nextFh>>
  BY DEF Answer
<1>2. NumbersInv' /\ MeantInv'
  BY <1>1, NumberForKeeps DEF Sound
<1>3. HandlesInv'
  BY <1>1, HandlesStay DEF Sound
<1>4. QED
  BY <1>1, <1>2, <1>3 DEF Sound

\* open takes a handle, truncating or not.
LEMMA OpenKeeps ==
    ASSUME Sound, UNCHANGED <<head, off>>,
           NEW p \in Places, NEW truncate \in BOOLEAN, OpenFile(p, truncate)
    PROVE  Sound'
<1> DEFINE h == Handle(p, IF truncate THEN NoContent ELSE tree[p].content, truncate,
                       DigestOf(tree[p]))
<1>1. /\ Is(tree, p, "file") \/ (truncate /\ tree[p] = None)
      /\ nextFh' = nextFh + 1
      /\ handles' = [i \in DOMAIN handles \cup {nextFh'} |->
                        IF i = nextFh' THEN h ELSE handles[i]]
      /\ tree' = tree /\ born' = born /\ UNCHANGED table
  BY DEF OpenFile
<1>2. HandleOK(h)
  <2> DEFINE bytes == IF truncate THEN NoContent ELSE tree[p].content
             opened == DigestOf(tree[p])
  <2>1. tree[p] # None => tree[p] \in Entries /\ tree[p].kind = "file"
    BY <1>1, TreeAt DEF Sound, Is
  <2>2. bytes \in Contents \cup {NoContent}
    BY <1>1, <2>1, EntryIs DEF Is
  <2>3. opened \in Entries \cup {None} /\ (opened # None => opened.kind = "file")
    BY <2>1, EntryIs DEF DigestOf
  <2>4. h = Handle(p, bytes, truncate, opened)
    OBVIOUS
  <2> HIDE DEF h, bytes, opened
  <2>5. /\ h \in [path : Places, bytes : Contents \cup {NoContent}, dirty : BOOLEAN,
                  opened : Entries \cup {None}]
        /\ h.opened = opened
    BY <2>2, <2>3, <2>4 DEF Handle
  <2>6. QED
    BY <2>3, <2>5 DEF HandleOK
<1> HIDE DEF h
<1>3. HandlesInv'
  BY <1>1, <1>2 DEF HandlesInv, Sound
<1>4. Keeps(tree, tree', Places)
  BY <1>1 DEF Keeps
<1>5. NumbersInv' /\ MeantInv'
  BY <1>1, <1>4, TableStays DEF Sound
<1>6. QED
  BY <1>1, <1>3, <1>5 DEF Sound

\* Taking a handle out of the table leaves the others.
LEMMA DroppedOK ==
    ASSUME HandlesInv, NEW i, handles' = Dropped(i), nextFh' = nextFh
    PROVE  HandlesInv'
<1>1. handles' = [j \in DOMAIN handles \ {i} |-> handles[j]]
  BY DEF Dropped
<1>2. QED
  BY <1>1 DEF HandlesInv

\* A handle that may be written back is to a file that is there, or to nothing.
LEMMA SameFileIs ==
    ASSUME Sound, NEW i \in DOMAIN handles, SameFile(handles[i])
    PROVE  LET p == handles[i].path
           IN  /\ p \in Places /\ handles[i].bytes \in Contents \cup {NoContent}
               /\ tree[p] = None \/ Is(tree, p, "file")
<1> DEFINE h == handles[i]
<1>1. HandleOK(h)
  BY DEF Sound, HandlesInv
<1>2. h.opened = DigestOf(tree[h.path])
  BY DEF SameFile
<1>3. h.path \in Places /\ h.bytes \in Contents \cup {NoContent}
  BY <1>1 DEF HandleOK
<1> HIDE DEF h
<1>4. CASE tree[h.path] # None
  <2>1. tree[h.path] \in Entries
    BY <1>3, <1>4, TreeAt DEF Sound
  <2>2. h.opened # None /\ h.opened.kind = tree[h.path].kind
    BY <1>2, <2>1, EntryIs
  <2>3. QED
    BY <1>1, <1>3, <1>4, <2>2 DEF HandleOK, Is, h
<1>5. QED
  BY <1>3, <1>4 DEF h

\* release writes a handle's bytes back or discards them.
LEMMA ReleaseKeeps ==
    ASSUME Sound, UNCHANGED <<head, off>>, NEW i, Release(i)
    PROVE  Sound'
<1> DEFINE h == handles[i]
           w == Written(tree, h.path, h.bytes)
<1>1. /\ i \in DOMAIN handles /\ handles' = Dropped(i)
      /\ IF h.dirty /\ SameFile(h)
         THEN w.fits /\ tree' = w.tree /\ born' = born + 1
         ELSE UNCHANGED <<tree, born>>
      /\ nextFh' = nextFh /\ UNCHANGED table
  BY DEF Release
<1>2. tree' \in Trees /\ born' \in Nat /\ Keeps(tree, tree', Places)
  <2>1. CASE h.dirty /\ SameFile(h)
    <3>1. h.path \in Places /\ h.bytes \in Contents \cup {NoContent}
          /\ (tree[h.path] = None \/ Is(tree, h.path, "file"))
      BY <1>1, <2>1, SameFileIs
    <3>2. w.fits /\ tree' = w.tree /\ born' = born + 1
      BY <1>1, <2>1
    <3>3. QED
      BY <3>1, <3>2, WrittenIs DEF Sound
  <2>2. CASE ~(h.dirty /\ SameFile(h))
    BY <1>1, <2>2 DEF Sound, Keeps
  <2>3. QED
    BY <2>1, <2>2
<1>3. NumbersInv' /\ MeantInv'
  BY <1>1, <1>2, TableStays DEF Sound
<1>4. HandlesInv'
  BY <1>1, DroppedOK DEF Sound
<1>5. QED
  BY <1>2, <1>3, <1>4 DEF Sound

\* setattr changes the metadata of a path, unless it sets a linked name apart.
LEMMA SetAttrKeeps ==
    ASSUME Sound, UNCHANGED <<head, off>>,
           NEW p \in Places, NEW m \in Metas, SetAttr(p, m), ~astray'
    PROVE  Sound'
<1>1. /\ tree[p] # None /\ tree' = [tree EXCEPT ![p].meta = m]
      /\ tree[p].links = {} \/ tree' = tree
      /\ born' = born /\ UNCHANGED <<handles, nextFh>> /\ UNCHANGED table
  BY DEF SetAttr
<1>2. tree' \in Trees /\ Keeps(tree, tree', Places)
  <2>1. CASE tree' = tree
    BY <2>1 DEF Sound, Keeps
  <2>2. CASE tree[p].links = {}
    BY <1>1, <2>2, AttrIs DEF Sound
  <2>3. QED
    BY <1>1, <2>1, <2>2
<1>3. NumbersInv' /\ MeantInv'
  BY <1>1, <1>2, TableStays DEF Sound
<1>4. HandlesInv'
  BY <1>1, HandlesStay DEF Sound
<1>5. QED
  BY <1>1, <1>2, <1>3, <1>4 DEF Sound

\* mkdir and symlink.
LEMMA MakeEntryKeeps ==
    ASSUME Sound, UNCHANGED <<head, off>>,
           NEW p \in Places, NEW kind \in {"dir", "symlink"}, MakeEntry(p, kind)
    PROVE  Sound'
<1> DEFINE e == Entry(kind, 0, NoContent, {}, born + 1)
<1>1. /\ tree[p] = None /\ Reachable(tree, {p}) /\ tree' = Placed(tree, {p}, e)
      /\ born' = born + 1 /\ UNCHANGED <<handles, nextFh>> /\ UNCHANGED table
  BY DEF MakeEntry
<1>2. e \in Entries /\ e.links = {}
  <2>1. born + 1 \in Nat /\ NoContent \in Contents \cup {NoContent}
        /\ kind \in {"dir", "file", "symlink"}
    BY DEF Sound
  <2>2. QED
    BY <2>1, EntryMade
<1> HIDE DEF e
<1>3. tree' \in Trees /\ Keeps(tree, tree', Places)
  BY <1>1, <1>2, MadeIs DEF Sound
<1>4. NumbersInv' /\ MeantInv'
  BY <1>1, <1>3, TableStays DEF Sound
<1>5. HandlesInv'
  BY <1>1, HandlesStay DEF Sound
<1>6. QED
  BY <1>1, <1>3, <1>4, <1>5 DEF Sound

\* unlink and rmdir, with the numbers of what they remove.
LEMMA RemoveKeeps ==
    ASSUME Sound, UNCHANGED <<head, off>>,
           NEW p \in Places, NEW dir \in BOOLEAN, RemoveEntry(p, dir)
    PROVE  Sound'
<1>1. /\ tree[p] # None /\ Is(tree, p, "dir") = dir
      /\ IF dir THEN Childless(tree, p) /\ tree' = [tree EXCEPT ![p] = None]
         ELSE Reachable([tree EXCEPT ![p] = None], tree[p].links \ {p})
              /\ tree' = Unlinked(tree, p)
      /\ Forget(p) /\ born' = born /\ UNCHANGED <<handles, nextFh>>
  BY DEF RemoveEntry
<1>2. tree' \in Trees /\ Keeps(tree, tree', Places \ {p})
  <2>1. CASE dir
    <3>1. tree[p].links = {}
      BY <1>1, <2>1, TreeAt DEF Sound, Is
    <3>2. QED
      BY <1>1, <2>1, <3>1, CutIs DEF Sound
  <2>2. CASE ~dir
    BY <1>1, <2>2, UnlinkedIs DEF Sound
  <2>3. QED
    BY <2>1, <2>2
<1>3. NumbersInv' /\ MeantInv'
  BY <1>1, <1>2, ForgetKeeps DEF Sound
<1>4. HandlesInv'
  BY <1>1, HandlesStay DEF Sound
<1>5. QED
  BY <1>1, <1>2, <1>3, <1>4 DEF Sound

\* rename, with the numbers of what it moves and replaces, unless a linked file moves.
LEMMA RenameKeeps ==
    ASSUME Sound, UNCHANGED <<head, off>>,
           NEW from \in Places, NEW to \in Places, from \in DOMAIN toInode,
           Rename(from, to), ~astray'
    PROVE  Sound'
<1>1. /\ tree[from] # None /\ ~Beneath(to, from) /\ Landing(tree, from, to) \subseteq Places
      /\ Is(tree, to, "dir") => Childless(tree, to)
      /\ Reachable(tree, {to})
  BY DEF Rename, Landing, Under
<1>2. tree' = Shifted(tree, from, to)
  BY DEF Rename, Shifted, Landing, Under, Emptied
<1>3. /\ Renumber(from, to) /\ born' = born + 1 /\ UNCHANGED <<handles, nextFh>>
  BY DEF Rename
<1>4. \A q \in Under(tree, from) \cup {to} : tree[q] # None => tree[q].links = {}
  BY DEF Rename, Under
<1>5. /\ tree' \in Trees
      /\ \A q \in Under(tree, from) : tree'[Onto(q, from, to)] = tree[q]
      /\ \A q \in Places \ {to} : tree[q] # None /\ ~Beneath(q, from) => tree'[q] = tree[q]
  BY <1>1, <1>2, <1>4, ShiftedIs DEF Sound
<1>6. NumbersInv' /\ MeantInv'
  BY <1>1, <1>3, <1>5, RenumberKeeps DEF Sound
<1>7. HandlesInv'
  BY <1>3, HandlesStay DEF Sound
<1>8. QED
  BY <1>3, <1>5, <1>6, <1>7 DEF Sound

\* link adds a name to a group.
LEMMA LinkKeeps ==
    ASSUME Sound, UNCHANGED <<head, off>>,
           NEW p \in Places, NEW new \in Places, Link(p, new)
    PROVE  Sound'
<1> DEFINE group == tree[p].links \cup {p, new}
<1>1. /\ Is(tree, p, "file") /\ tree[new] = None /\ Reachable(tree, group)
      /\ tree' = Placed(tree, group, [tree[p] EXCEPT !.links = group])
      /\ born' = born + 1 /\ UNCHANGED <<handles, nextFh>> /\ UNCHANGED table
  BY DEF Link
<1>2. tree' \in Trees /\ Keeps(tree, tree', Places)
  BY <1>1, LinkedIs DEF Sound
<1>3. NumbersInv' /\ MeantInv'
  BY <1>1, <1>2, TableStays DEF Sound
<1>4. HandlesInv'
  BY <1>1, HandlesStay DEF Sound
<1>5. QED
  BY <1>1, <1>2, <1>3, <1>4 DEF Sound

\* New bytes in a handle, which has to be written back.
LEMMA BytesOK ==
    ASSUME HandlesInv, NEW i \in DOMAIN handles, NEW c \in Contents \cup {NoContent},
           NEW dirty \in BOOLEAN,
           handles' = [handles EXCEPT ![i].bytes = c, ![i].dirty = dirty], nextFh' = nextFh
    PROVE  HandlesInv' /\ DOMAIN handles' = DOMAIN handles
<1> DEFINE h == handles[i]
           g == [[h EXCEPT !.bytes = c] EXCEPT !.dirty = dirty]
<1>1. HandleOK(h)
  BY DEF HandlesInv
<1>2. handles' = [handles EXCEPT ![i] = g]
  BY DEF HandlesInv
<1>3. HandleOK(g)
  <2>1. /\ g \in [path : Places, bytes : Contents \cup {NoContent}, dirty : BOOLEAN,
                  opened : Entries \cup {None}]
        /\ g.opened = h.opened
    BY <1>1 DEF HandleOK
  <2>2. QED
    BY <1>1, <2>1 DEF HandleOK
<1> HIDE DEF g
<1>4. /\ handles' = [j \in DOMAIN handles |-> handles'[j]]
      /\ \A j \in DOMAIN handles : handles'[j] = IF j = i THEN g ELSE handles[j]
  BY <1>2 DEF HandlesInv
<1>5. QED
  BY <1>3, <1>4 DEF HandlesInv

\* truncate through an open handle.
LEMMA ResizeKeeps ==
    ASSUME Sound, UNCHANGED <<head, off>>, NEW i, Resize(i)
    PROVE  Sound'
<1>1. /\ i \in DOMAIN handles
      /\ handles' = [handles EXCEPT ![i].bytes = NoContent, ![i].dirty = TRUE]
      /\ tree' = tree /\ born' = born /\ nextFh' = nextFh /\ UNCHANGED table
  BY DEF Resize
<1>2. HandlesInv'
  BY <1>1, BytesOK DEF Sound
<1>3. Keeps(tree, tree', Places)
  BY <1>1 DEF Keeps
<1>4. NumbersInv' /\ MeantInv'
  BY <1>1, <1>3, TableStays DEF Sound
<1>5. QED
  BY <1>1, <1>2, <1>4 DEF Sound

--------------------------------------------------------------------------------
(* Requests *)

\* The sections a request can begin with.
First ==
    Later
        \cup {[what |-> "make", path |-> p] : p \in Places}
        \cup {[what |-> "entry", path |-> p, kind |-> k] : p \in Places, k \in {"dir", "symlink"}}
        \cup {[what |-> "remove", path |-> p, dir |-> d] : p \in LookedUp, d \in BOOLEAN}
        \cup {[what |-> "rename", path |-> p, to |-> q] : p \in LookedUp, q \in Places}
        \cup {[what |-> "link", path |-> p, to |-> q] : p \in Places, q \in Places}

\* Every section keeps the invariant, unless it moves a name of a linked file.
LEMMA RunKeeps ==
    ASSUME Sound, UNCHANGED <<head, off>>, NEW s \in First, Run(s), ~astray'
    PROVE  Sound'
<1>1. CASE s.what = "make" /\ Make(s.path)
  <2>1. s.path \in Places
    BY <1>1 DEF First, Later, AnswerFor, OpenFor, AttrFor, FileFor
  <2>2. QED
    BY <1>1, <2>1, MakeKeeps
<1>2. CASE s.what = "answer" /\ Answer(s.path)
  <2>1. s.path \in Places
    BY <1>2 DEF First, Later, AnswerFor, OpenFor, AttrFor, FileFor
  <2>2. QED
    BY <1>2, <2>1, AnswerKeeps
<1>3. CASE s.what = "open" /\ OpenFile(s.path, s.truncate)
  <2>1. s.path \in Places /\ s.truncate \in BOOLEAN
    BY <1>3 DEF First, Later, AnswerFor, OpenFor, AttrFor, FileFor
  <2>2. QED
    BY <1>3, <2>1, OpenKeeps
<1>4. CASE s.what = "resize" /\ Resize(s.file)
  BY <1>4, ResizeKeeps
<1>5. CASE s.what = "release" /\ Release(s.file)
  BY <1>5, ReleaseKeeps
<1>6. CASE s.what = "setattr" /\ SetAttr(s.path, s.meta)
  <2>1. s.path \in Places /\ s.meta \in Metas
    BY <1>6 DEF First, Later, AnswerFor, OpenFor, AttrFor, FileFor
  <2>2. QED
    BY <1>6, <2>1, SetAttrKeeps
<1>7. CASE s.what = "entry" /\ MakeEntry(s.path, s.kind)
  <2>1. s.path \in Places /\ s.kind \in {"dir", "symlink"}
    BY <1>7 DEF First, Later, AnswerFor, OpenFor, AttrFor, FileFor
  <2>2. QED
    BY <1>7, <2>1, MakeEntryKeeps
<1>8. CASE s.what = "remove" /\ RemoveEntry(s.path, s.dir)
  <2>1. s.path \in Places /\ s.dir \in BOOLEAN
    BY <1>8 DEF First, Later, AnswerFor, OpenFor, AttrFor, FileFor, LookedUp
  <2>2. QED
    BY <1>8, <2>1, RemoveKeeps
<1>9. CASE s.what = "rename" /\ Rename(s.path, s.to)
  <2>1. s.path \in Places /\ s.to \in Places /\ s.path \in DOMAIN toInode
    BY <1>9 DEF First, Later, AnswerFor, OpenFor, AttrFor, FileFor, LookedUp
  <2>2. QED
    BY <1>9, <2>1, RenameKeeps
<1>10. CASE s.what = "link" /\ Link(s.path, s.to)
  <2>1. s.path \in Places /\ s.to \in Places
    BY <1>10 DEF First, Later, AnswerFor, OpenFor, AttrFor, FileFor
  <2>2. QED
    BY <1>10, <2>1, LinkKeeps
<1>11. QED
  BY <1>1, <1>2, <1>3, <1>4, <1>5, <1>6, <1>7, <1>8, <1>9, <1>10 DEF Run

\* A request: a first section, and sections that can follow it.
Chain(r) == r \in Seq(First) /\ r # <<>> /\ \A i \in 2..Len(r) : r[i] \in Later

\* A request has a first section and then later ones.
LEMMA ChainIs ==
    ASSUME NEW r, Chain(r)
    PROVE  Head(r) \in First /\ Tail(r) \in Seq(Later)
<1>1. /\ Head(r) \in First /\ Tail(r) \in Seq(First) /\ Len(Tail(r)) = Len(r) - 1
      /\ \A i \in 1..Len(Tail(r)) : Tail(r)[i] = r[i + 1]
  BY HeadTailProperties DEF Chain
<1>2. Len(r) \in Nat /\ Len(Tail(r)) \in Nat /\ Tail(r) \in [1..Len(Tail(r)) -> First]
  BY <1>1, LenProperties DEF Chain
<1>3. \A i \in 1..Len(Tail(r)) : Tail(r)[i] \in Later
  BY <1>1, <1>2 DEF Chain
<1>4. Tail(r) \in [1..Len(Tail(r)) -> Later]
  BY <1>2, <1>3
<1> DEFINE t == Tail(r)
           n == Len(t)
<1>5. n \in Nat /\ t \in [1..n -> Later]
  BY <1>2, <1>4
<1> HIDE DEF t, n
<1>6. t \in Seq(Later)
  BY <1>5, SeqDef
<1>7. QED
  BY <1>1, <1>6 DEF t

\* The later sections of the callbacks.
LEMMA LaterAre ==
    /\ \A p \in Places : AnswerFor(p) \in Later
    /\ \A p \in Places, t \in BOOLEAN : OpenFor(p, t) \in Later
    /\ \A p \in Places, m \in Metas : AttrFor(p, m) \in Later
    /\ \A i \in Nat : FileFor("resize", i) \in Later /\ FileFor("release", i) \in Later
    /\ Later \subseteq First
<1>1. \A p \in Places : AnswerFor(p) \in Later
  BY DEF Later
<1>2. \A p \in Places, t \in BOOLEAN : OpenFor(p, t) \in Later
  BY DEF Later
<1>3. \A p \in Places, m \in Metas : AttrFor(p, m) \in Later
  BY DEF Later
<1>4. \A i \in Nat : FileFor("resize", i) \in Later /\ FileFor("release", i) \in Later
  BY DEF Later
<1>5. Later \subseteq First
  BY DEF First
<1>6. QED
  BY <1>1, <1>2, <1>3, <1>4, <1>5

\* Every callback is a chain of sections.
LEMMA CallbacksAreChains ==
    ASSUME HandlesInv, NEW r \in Callbacks
    PROVE  Chain(r)
<1>1. Children \subseteq Places /\ Numbered \subseteq Places /\ LookedUp \subseteq Places
  BY DEF Children, Numbered, LookedUp
<1>2. ASSUME NEW a \in First PROVE Chain(<<a>>)
  BY <1>2 DEF Chain
<1>3. ASSUME NEW a \in First, NEW b \in Later PROVE Chain(<<a, b>>)
  <2>1. b \in First
    BY DEF First
  <2>2. QED
    BY <2>1 DEF Chain
<1>4. CASE \E p \in Children : r = <<AnswerFor(p)>>
  BY <1>1, <1>2, <1>4 DEF First, Later
<1>5. CASE \E p \in Numbered, t \in BOOLEAN : r = <<OpenFor(p, t)>>
  BY <1>1, <1>2, <1>5 DEF First, Later
<1>6. CASE \E p \in Children, m \in Metas : r = Create(p, m)
  <2>1. PICK p \in Children, m \in Metas : r = Create(p, m)
    BY <1>6
  <2> DEFINE a == [what |-> "make", path |-> p]
             b == AnswerFor(p)
             c == OpenFor(p, TRUE)
             d == AttrFor(p, m)
             rest == IF m = 0 THEN <<>> ELSE <<d, b>>
  <2>2. a \in First /\ b \in Later /\ c \in Later /\ d \in Later
    <3>1. a \in First
      BY <1>1 DEF First
    <3>2. p \in Places /\ TRUE \in BOOLEAN
      BY <1>1
    <3>3. QED
      BY <3>1, <3>2, LaterAre
  <2>3. r = <<a, b, c>> \o rest
    BY <2>1 DEF Create
  <2> HIDE DEF a, b, c, d
  <2>4. b \in First /\ c \in First /\ d \in First
    BY <2>2 DEF First
  <2>5. <<a, b, c>> \in Seq(First) /\ Len(<<a, b, c>>) = 3
    BY <2>2, <2>4
  <2>6. rest \in Seq(First) /\ Len(rest) \in Nat /\ \A i \in 1..Len(rest) : rest[i] \in Later
    <3>1. CASE m = 0
      BY <3>1, EmptySeq
    <3>2. CASE m # 0
      BY <2>2, <2>4, <3>2
    <3>3. QED
      BY <3>1, <3>2
  <2> DEFINE abc == <<a, b, c>>
  <2>7. abc[2] \in Later /\ abc[3] \in Later
    BY <2>2
  <2> HIDE DEF rest, abc
  <2>8. /\ r \in Seq(First) /\ Len(r) = 3 + Len(rest)
        /\ \A i \in 1..Len(r) : r[i] = IF i <= 3 THEN abc[i] ELSE rest[i - 3]
    BY <2>3, <2>5, <2>6, ConcatProperties DEF abc
  <2>9. ASSUME NEW i \in 2..Len(r) PROVE r[i] \in Later
    <3>1. CASE i <= 3
      <4>1. i = 2 \/ i = 3
        BY <3>1
      <4>2. QED
        BY <2>6, <2>7, <2>8, <3>1, <4>1
    <3>2. CASE ~(i <= 3)
      <4>1. i - 3 \in 1..Len(rest) /\ i \in 1..Len(r)
        BY <2>6, <2>8, <3>2
      <4>2. QED
        BY <2>6, <2>8, <3>2, <4>1
    <3>3. QED
      BY <3>1, <3>2
  <2>10. r # <<>>
    BY <2>6, <2>8, EmptySeq
  <2>11. QED
    BY <2>8, <2>9, <2>10 DEF Chain
<1>7. CASE r \in SetAttrs
  <2>1. PICK p \in Numbered : \E size \in Sized(p), m \in Metas :
           r = size \o <<AttrFor(p, m), AnswerFor(p)>>
    BY <1>7 DEF SetAttrs
  <2>2. PICK size \in Sized(p), m \in Metas : r = size \o <<AttrFor(p, m), AnswerFor(p)>>
    BY <2>1
  <2>3. size \in Seq(Later)
    <3>1. CASE size = <<>>
      BY <3>1
    <3>2. CASE \E i \in DOMAIN handles : size = <<FileFor("resize", i)>>
      <4>1. PICK i \in DOMAIN handles : size = <<FileFor("resize", i)>>
        BY <3>2
      <4>2. i \in Nat
        BY DEF HandlesInv
      <4>3. FileFor("resize", i) \in Later
        BY <4>2, LaterAre
      <4>4. QED
        BY <4>1, <4>3
    <3>3. CASE size = <<OpenFor(p, FALSE), FileFor("resize", nextFh + 1),
                        FileFor("release", nextFh + 1)>>
      <4>1. p \in Places /\ FALSE \in BOOLEAN /\ nextFh + 1 \in Nat
        BY <1>1 DEF HandlesInv
      <4>2. /\ OpenFor(p, FALSE) \in Later /\ FileFor("resize", nextFh + 1) \in Later
            /\ FileFor("release", nextFh + 1) \in Later
        BY <4>1, LaterAre
      <4> DEFINE a == OpenFor(p, FALSE)
                 b == FileFor("resize", nextFh + 1)
                 c == FileFor("release", nextFh + 1)
      <4>3. a \in Later /\ b \in Later /\ c \in Later /\ size = <<a, b, c>>
        BY <3>3, <4>2
      <4> HIDE DEF a, b, c
      <4>4. <<a, b, c>> \in Seq(Later)
        BY <4>3
      <4>5. QED
        BY <4>3, <4>4
    <3>0. size \in Sized(p)
      BY <2>2
    <3>4. \/ size \in {<<>>}
          \/ size \in {<<FileFor("resize", i)>> : i \in DOMAIN handles}
          \/ size \in {<<OpenFor(p, FALSE), FileFor("resize", nextFh + 1),
                        FileFor("release", nextFh + 1)>>}
      BY <3>0, Zenon DEF Sized
    <3>5. (\E i \in DOMAIN handles : size = <<FileFor("resize", i)>>) => size \in Seq(Later)
      BY <3>2
    <3>6. QED
      BY <3>1, <3>3, <3>4, <3>5
  <2>4. AttrFor(p, m) \in Later /\ AnswerFor(p) \in Later
    BY <1>1, LaterAre
  <2>5. r \in Seq(Later) /\ r # <<>>
    <3> DEFINE last == <<AttrFor(p, m), AnswerFor(p)>>
    <3>1. last \in Seq(Later) /\ Len(last) = 2
      BY <2>4
    <3> HIDE DEF last
    <3>2. r \in Seq(Later) /\ Len(r) = Len(size) + 2 /\ Len(size) \in Nat
      BY <2>2, <2>3, <3>1, ConcatProperties, LenProperties DEF last
    <3>3. QED
      BY <3>2, EmptySeq
  <2>6. \A i \in 1..Len(r) : r[i] \in Later
    BY <2>5, ElementOfSeq
  <2>7. r \in Seq(First) /\ Len(r) \in Nat
    BY <2>5, LenProperties, LaterAre, SeqDef
  <2>8. QED
    BY <2>5, <2>6, <2>7 DEF Chain
<1>9. CASE \E p \in Children, k \in {"dir", "symlink"} :
              r = <<[what |-> "entry", path |-> p, kind |-> k], AnswerFor(p)>>
  <2>1. PICK p \in Children, k \in {"dir", "symlink"} :
           r = <<[what |-> "entry", path |-> p, kind |-> k], AnswerFor(p)>>
    BY <1>9
  <2>2. [what |-> "entry", path |-> p, kind |-> k] \in First /\ AnswerFor(p) \in Later
    BY <1>1 DEF First, Later
  <2>3. QED
    BY <1>3, <2>1, <2>2
<1>10. CASE \E p \in LookedUp, d \in BOOLEAN : r = <<[what |-> "remove", path |-> p, dir |-> d]>>
  BY <1>2, <1>10 DEF First
<1>11. CASE \E p \in LookedUp, q \in Children : r = <<[what |-> "rename", path |-> p, to |-> q]>>
  BY <1>1, <1>2, <1>11 DEF First
<1>12. CASE \E p \in Numbered, q \in Children :
               r = <<[what |-> "link", path |-> p, to |-> q], AnswerFor(q)>>
  <2>1. PICK p \in Numbered, q \in Children :
           r = <<[what |-> "link", path |-> p, to |-> q], AnswerFor(q)>>
    BY <1>12
  <2>2. [what |-> "link", path |-> p, to |-> q] \in First /\ AnswerFor(q) \in Later
    BY <1>1 DEF First, Later
  <2>3. QED
    BY <1>3, <2>1, <2>2
<1>13. CASE \E i \in DOMAIN handles : r = <<FileFor("release", i)>>
  BY <1>2, <1>13, LaterAre DEF HandlesInv
<1>14. QED
  BY <1>4, <1>5, <1>6, <1>7, <1>9, <1>10, <1>11, <1>12, <1>13 DEF Callbacks

--------------------------------------------------------------------------------
(* Theorems *)

\* A mount that was just made.
LEMMA InitIsSound == Init => MountInv
<1> SUFFICES ASSUME Init PROVE Sound /\ todo \in Seq(Later)
  BY DEF MountInv
<1>1. /\ tree = [p \in Places |->
                    IF p \notin Seed THEN None
                    ELSE IF \E q \in Seed : q # p /\ Beneath(q, p)
                         THEN NewDir(Len(p)) ELSE Entry("file", 0, NoContent, {}, Len(p))]
      /\ handles = <<>> /\ nextFh = 0 /\ nextInode = 2 /\ todo = <<>> /\ born = Depth
      /\ toPath = [n \in {1} |-> Root] /\ toInode = [p \in {Root} |-> 1]
      /\ meant = [n \in {1} |-> 0]
  BY DEF Init
<1>2. \A p \in Places : /\ NewDir(Len(p)) \in Entries /\ NewDir(Len(p)).links = {}
                        /\ NewDir(Len(p)).kind = "dir"
                        /\ Entry("file", 0, NoContent, {}, Len(p)) \in Entries
                        /\ Entry("file", 0, NoContent, {}, Len(p)).links = {}
  <2> SUFFICES ASSUME NEW p \in Places
               PROVE  /\ NewDir(Len(p)) \in Entries /\ NewDir(Len(p)).links = {}
                      /\ NewDir(Len(p)).kind = "dir"
                      /\ Entry("file", 0, NoContent, {}, Len(p)) \in Entries
                      /\ Entry("file", 0, NoContent, {}, Len(p)).links = {}
    OBVIOUS
  <2>1. Len(p) \in Nat /\ NoContent \in Contents \cup {NoContent}
    BY PlaceSeq
  <2>2. QED
    BY <2>1, EntryMade DEF NewDir
<1>3. \A p \in Places :
         tree[p] = IF p \notin Seed THEN None
                   ELSE IF \E q \in Seed : q # p /\ Beneath(q, p)
                        THEN NewDir(Len(p)) ELSE Entry("file", 0, NoContent, {}, Len(p))
  BY <1>1
<1>4. tree \in Maps
  <2>1. \A p \in Places : tree[p] \in Entries \cup {None}
    BY <1>2, <1>3
  <2>2. tree = [p \in Places |-> tree[p]]
    BY <1>1
  <2>3. QED
    BY <2>1, <2>2 DEF Maps
<1>5. Rooted(tree)
  <2> SUFFICES ASSUME NEW p \in Places, tree[p] # None, NEW a \in Ancestors(p)
               PROVE  Is(tree, a, "dir")
    BY DEF Rooted
  <2>1. p \in Seed /\ a \in Seed /\ a \in Places /\ a # p /\ Beneath(p, a)
    BY <1>3, PlaceOrder, MountAssumption
  <2>2. tree[a] = NewDir(Len(a))
    BY <1>3, <2>1
  <2>3. QED
    BY <1>2, <2>1, <2>2, NoneIsNoEntry DEF Is
<1>6. Grouped(tree)
  BY <1>2, <1>3 DEF Grouped
<1>7. HandlesInv
  BY <1>1 DEF HandlesInv
<1>8. NumbersInv
  <2>1. DOMAIN toPath = {1} /\ DOMAIN meant = {1} /\ DOMAIN toInode = {Root}
    BY <1>1
  <2>2. toInode[Root] = 1 /\ toPath[1] = Root /\ Root \in Seq(Names)
    BY <1>1, EmptySeq DEF Root
  <2>3. QED
    BY <1>1, <2>1, <2>2 DEF NumbersInv
<1>9. MeantInv
  BY <1>1 DEF MeantInv
<1>10. todo \in Seq(Later) /\ born \in Nat /\ head = tree
  BY <1>1, EmptySeq, MountAssumption DEF Init
<1>11. QED
  BY <1>4, <1>5, <1>6, <1>7, <1>8, <1>9, <1>10 DEF Sound, Trees

\* No section takes back that a linked name was set apart.
LEMMA RunStrays == ASSUME NEW s, Run(s), ~astray' PROVE ~astray
BY DEF Run, Make, Answer, OpenFile, Resize, Release, SetAttr, MakeEntry, RemoveEntry, Rename, Link

\* What every step but a section's leaves alone.
LEMMA OthersKeep ==
    ASSUME Sound, UNCHANGED <<head, off, tree, born>>, UNCHANGED table, HandlesInv'
    PROVE  Sound'
<1>1. Keeps(tree, tree', Places)
  BY DEF Keeps
<1>2. NumbersInv' /\ MeantInv'
  BY <1>1, TableStays DEF Sound
<1>3. QED
  BY <1>2 DEF Sound

\* Another surface leaves a tree at the head.
LEMMA ForeignTree == ASSUME head \in Trees, Foreign PROVE head' \in Trees
<1>1. PICK p \in Places, c \in Contents \cup {NoContent} :
         /\ Is(head, p, "file") /\ head[p].links = {}
         /\ head' \in {[head EXCEPT ![p].content = c], [head EXCEPT ![p] = None]}
  BY DEF Foreign
<1>2. head[p] # None /\ ~Is(head, p, "dir")
  BY <1>1 DEF Is
<1>3. [head EXCEPT ![p].content = c] \in Trees
  BY <1>1, <1>2, AttrIs
<1>4. [head EXCEPT ![p] = None] \in Trees
  BY <1>1, <1>2, CutIs
<1>5. QED
  BY <1>1, <1>3, <1>4

\* A number that a new workspace does not misplace stands for what it stood for.
LEMMA ReopenKeeps ==
    ASSUME NumbersInv, MeantInv, UNCHANGED table, tree' = head,
           off' = off \cup Misplaced(head)
    PROVE  NumbersInv' /\ MeantInv'
<1>1. UNCHANGED <<toPath, toInode, nextInode, meant>>
  BY DEF table
<1>2. NumbersInv'
  BY <1>1 DEF NumbersInv
<1>3. ASSUME NEW p \in DOMAIN toInode \ {Root}, toInode[p] \notin off'
      PROVE  p \in Places /\ head[p] # None /\ head[p].id = meant[toInode[p]]
  <2>1. p \in Places /\ tree[p] # None /\ tree[p].id = meant[toInode[p]]
    BY <1>3 DEF MeantInv
  <2>2. toInode[p] \notin Misplaced(head)
    BY <1>3
  <2>3. (tree[p] = None) = (head[p] = None)
        /\ ~(tree[p] # None /\ head[p] # None /\ tree[p].id # head[p].id)
    BY <2>1, <2>2 DEF Misplaced
  <2>4. QED
    BY <2>1, <2>3
<1>4. MeantInv'
  BY <1>1, <1>3 DEF MeantInv
<1>5. QED
  BY <1>2, <1>4

\* The invariant is inductive.
LEMMA NextKeeps == MountInv /\ [Next]_vars => MountInv'
<1> SUFFICES ASSUME MountInv, [Next]_vars, ~astray' PROVE Sound' /\ todo' \in Seq(Later)
  BY DEF MountInv
<1>1. CASE Begin
  <2>0. UNCHANGED <<head, off>>
    BY <1>1 DEF Begin, outside
  <2>1. PICK r \in Callbacks : Run(Head(r)) /\ todo' = Tail(r)
    BY <1>1 DEF Begin
  <2>2. Sound
    BY <2>1, RunStrays DEF MountInv
  <2>3. Head(r) \in First /\ Tail(r) \in Seq(Later)
    BY <2>2, CallbacksAreChains, ChainIs DEF Sound
  <2>4. QED
    BY <2>0, <2>1, <2>2, <2>3, RunKeeps
<1>2. CASE Continue
  <2>1. todo # <<>> /\ Run(Head(todo)) /\ todo' = Tail(todo) /\ UNCHANGED <<head, off>>
    BY <1>2 DEF Continue, outside
  <2>2. Sound /\ todo \in Seq(Later)
    BY <2>1, RunStrays DEF MountInv
  <2>3. Head(todo) \in First /\ Tail(todo) \in Seq(Later)
    BY <2>1, <2>2, HeadTailProperties, LaterAre
  <2>4. QED
    BY <2>1, <2>2, <2>3, RunKeeps
<1>3. CASE BreakOff
  <2>1. /\ UNCHANGED <<head, off, tree, nextFh, born, astray>> /\ UNCHANGED table /\ todo' = <<>>
        /\ handles' = Dropped(Head(todo).file) \/ handles' = handles
    BY <1>3 DEF BreakOff, outside
  <2>2. Sound
    BY <2>1 DEF MountInv
  <2>3. HandlesInv'
    BY <2>1, <2>2, HandlesStay, DroppedOK DEF Sound
  <2>4. QED
    BY <2>1, <2>2, <2>3, OthersKeep, EmptySeq
<1>4. CASE WriteHandle
  <2>1. /\ UNCHANGED <<head, off, tree, nextFh, born, astray, todo>> /\ UNCHANGED table
        /\ \E i \in DOMAIN handles, c \in Contents :
               handles' = [handles EXCEPT ![i].bytes = c, ![i].dirty = TRUE]
    BY <1>4 DEF WriteHandle, outside
  <2>2. Sound /\ todo \in Seq(Later)
    BY <2>1 DEF MountInv
  <2>3. HandlesInv'
    <3>1. PICK i \in DOMAIN handles, c \in Contents :
             handles' = [handles EXCEPT ![i].bytes = c, ![i].dirty = TRUE]
      BY <2>1
    <3>2. QED
      BY <2>1, <2>2, <3>1, BytesOK DEF Sound
  <2>4. QED
    BY <2>1, <2>2, <2>3, OthersKeep
<1>5. CASE ReleaseFails
  <2>1. /\ UNCHANGED <<head, off, tree, nextFh, born, astray, todo>> /\ UNCHANGED table
        /\ \E i \in DOMAIN handles : handles' = Dropped(i)
    BY <1>5 DEF ReleaseFails, outside
  <2>2. Sound /\ todo \in Seq(Later)
    BY <2>1 DEF MountInv
  <2>3. HandlesInv'
    BY <2>1, <2>2, DroppedOK DEF Sound
  <2>4. QED
    BY <2>1, <2>2, <2>3, OthersKeep
<1>6. CASE Abort \/ ReopenFails \/ UNCHANGED vars
  <2>1. /\ UNCHANGED <<head, off, tree, handles, nextFh, todo, born, astray>>
        /\ UNCHANGED table
    BY <1>6 DEF Abort, ReopenFails, vars, table
  <2>2. Sound /\ todo \in Seq(Later) /\ HandlesInv'
    BY <2>1, HandlesStay DEF MountInv, Sound
  <2>3. QED
    BY <2>1, <2>2, OthersKeep
<1>7. CASE Publish \/ Foreign
  <2>1. UNCHANGED <<off, tree, handles, nextFh, todo, born, astray>> /\ UNCHANGED table
    BY <1>7 DEF Publish, Foreign
  <2>2. Sound /\ todo \in Seq(Later) /\ HandlesInv'
    BY <2>1, HandlesStay DEF MountInv, Sound
  <2>3. head' \in Trees
    <3>1. CASE Publish
      BY <2>2, <3>1 DEF Publish, Sound
    <3>2. CASE Foreign
      BY <2>2, <3>2, ForeignTree DEF Sound
    <3>3. QED
      BY <1>7, <3>1, <3>2
  <2>4. Keeps(tree, tree', Places)
    BY <2>1 DEF Keeps
  <2>5. NumbersInv' /\ MeantInv'
    BY <2>1, <2>2, <2>4, TableStays DEF Sound
  <2>6. QED
    BY <2>1, <2>2, <2>3, <2>5 DEF Sound
<1>8. CASE Reopen
  <2>1. /\ tree' = head /\ head' = head /\ off' = off \cup Misplaced(head)
        /\ UNCHANGED <<handles, nextFh, todo, born, astray>> /\ UNCHANGED table
    BY <1>8 DEF Reopen
  <2>2. Sound /\ todo \in Seq(Later) /\ HandlesInv'
    BY <2>1, HandlesStay DEF MountInv, Sound
  <2>3. NumbersInv' /\ MeantInv'
    BY <2>1, <2>2, ReopenKeeps DEF Sound
  <2>4. QED
    BY <2>1, <2>2, <2>3 DEF Sound
<1>9. QED
  BY <1>1, <1>2, <1>3, <1>4, <1>5, <1>6, <1>7, <1>8 DEF Next

\* The tree stays a tree with whole link groups, the table one path for each number
\* it gives, and every mapped path shows the file its number was answered for
\* (mount lib.rs, inode.rs), unless a publication or an abort opened a workspace that
\* shows something else there.  Claimed until a name of a linked file is moved or given
\* metadata of its own.
THEOREM MountInvariant == Spec => []MountInv
<1>1. Init => MountInv
  BY InitIsSound
<1>2. MountInv /\ [Next]_vars => MountInv'
  BY NextKeeps
<1>3. QED
  BY <1>1, <1>2, PTL DEF Spec

\* The number the table gives for a path leads back to it, and the path still shows
\* the file or directory the number was first answered for, but for the files that a
\* publication or an abort found to be others at the head it opened (inode.rs, with
\* the callbacks of surrealfs-fuse that use it, and mount lib.rs publish and abort).
THEOREM NumbersFollowFiles == Spec => []NumbersStandForFiles
<1>1. MountInv => NumbersStandForFiles
  <2> SUFFICES ASSUME MountInv, ~astray, NEW p \in DOMAIN toInode \ {Root}
               PROVE  /\ toPath[toInode[p]] = p
                      /\ toInode[p] \notin off =>
                             tree[p] # None /\ tree[p].id = meant[toInode[p]]
    BY DEF NumbersStandForFiles
  <2>1. NumbersInv /\ MeantInv
    BY DEF MountInv, Sound
  <2>2. QED
    BY <2>1 DEF NumbersInv, MeantInv
<1>2. QED
  BY <1>1, MountInvariant, PTL

\* A handle leaves the table only when it is released.
LEMMA OnlyReleaseDrops ==
    ASSUME NEW s, Run(s), NEW i \in DOMAIN handles, i \notin DOMAIN handles'
    PROVE  Release(i)
<1>1. \E j : Release(j)
  BY DEF Run, Make, Answer, OpenFile, Resize, SetAttr, MakeEntry, RemoveEntry, Rename, Link
<1>2. PICK j : Release(j)
  BY <1>1
<1>3. handles' = [k \in DOMAIN handles \ {j} |-> handles[k]]
  BY <1>2 DEF Release, Dropped
<1>4. i = j
  BY <1>3
<1>5. QED
  BY <1>2, <1>4

\* In a state of the invariant, a step that releases a handle changes its file only.
LEMMA ReleaseIsExact == MountInv /\ [Next]_vars => ReleasesExactly
<1> SUFFICES ASSUME MountInv, [Next]_vars, NEW i \in DOMAIN handles,
                    i \notin DOMAIN handles', tree' # tree, ~astray
             PROVE  LET h == handles[i]
                        t == tree[h.path]
                    IN  /\ h.opened = DigestOf(t)
                        /\ tree'[h.path].content = h.bytes
                        /\ \A p \in Places : tree'[p] # tree[p] =>
                               p = h.path \/ (t = None /\ Beneath(h.path, p))
                               \/ (t # None /\ DigestOf(tree[p]) = h.opened)
  BY DEF ReleasesExactly
<1>1. Sound
  BY DEF MountInv
<1>2. \E s : Run(s)
  BY DEF Next, Begin, Continue, BreakOff, WriteHandle, ReleaseFails, Publish, Abort, Reopen,
         ReopenFails, Foreign, vars
<1>3. Release(i)
  BY <1>2, OnlyReleaseDrops
<1> DEFINE h == handles[i]
<1>4. /\ SameFile(h) /\ Written(tree, h.path, h.bytes).fits
      /\ tree' = Written(tree, h.path, h.bytes).tree
  BY <1>3 DEF Release
<1>5. /\ h.path \in Places /\ h.bytes \in Contents \cup {NoContent}
      /\ tree[h.path] = None \/ Is(tree, h.path, "file")
  BY <1>1, <1>4, SameFileIs
<1>6. h.opened = DigestOf(tree[h.path])
  BY <1>4 DEF SameFile
<1> HIDE DEF h
<1>7. /\ tree'[h.path].content = h.bytes
      /\ \A p \in Places : tree'[p] # tree[p] =>
             p = h.path \/ (tree[h.path] = None /\ Beneath(h.path, p))
             \/ (tree[h.path] # None /\ tree[p] = tree[h.path])
  BY <1>1, <1>4, <1>5, WrittenIs DEF Sound
<1>8. QED
  BY <1>6, <1>7 DEF h

\* release puts the bytes of the handle at its path, under every name of the file,
\* and changes no file that is not what the handle opened (Workspace::close).
THEOREM ReleaseWritesOnlyItsFile == Spec => ReleaseExact
<1>1. MountInv /\ [Next]_vars => ReleasesExactly
  BY ReleaseIsExact
<1>2. QED
  BY <1>1, MountInvariant, PTL DEF Spec, ReleaseExact
================================================================================
