--------------------------- MODULE TransferProofs ---------------------------
(***************************************************************************)
(* Messages with handles, for every number of clients, objects and calls:  *)
(* a handle arrives as the object that the sender meant, and no reference  *)
(* is lost or made on the way.                                             *)
(***************************************************************************)
EXTENDS Transfer, IpcProofs

-----------------------------------------------------------------------------
(* Handle tables *)

\* A handle table of which n handles have been drawn.
HandleTable(f, n) ==
    /\ f = [h \in DOMAIN f |-> f[h]] /\ DOMAIN f \subseteq 1..n
    /\ \A h \in DOMAIN f : f[h] \in Object

\* The handles that name an object, with their processes.
Refs(t, o) == UNION {{<<p, h>> : h \in {k \in DOMAIN t[p] : t[p][k] = o}} : p \in Process}

Tables(t, d) ==
    /\ d \in [Process -> Nat] /\ t = [p \in Process |-> t[p]]
    /\ \A p \in Process : HandleTable(t[p], d[p])
    /\ \A o \in Object : IsFiniteSet(Refs(t, o))

\* T and D are t and d with one more object in p's table.
Inserted(t, d, T, D, p, o) ==
    /\ \A q \in Process : q # p => T[q] = t[q] /\ D[q] = d[q]
    /\ D[p] = d[p] + 1 /\ DOMAIN T[p] = DOMAIN t[p] \cup {d[p] + 1}
    /\ T[p][d[p] + 1] = o /\ \A h \in DOMAIN t[p] : T[p][h] = t[p][h]
    /\ d[p] + 1 \notin DOMAIN t[p]

\* T is t without a handle of p.
Removed(t, T, p, handle) ==
    /\ \A q \in Process : q # p => T[q] = t[q]
    /\ DOMAIN T[p] = DOMAIN t[p] \ {handle}
    /\ \A h \in DOMAIN T[p] : T[p][h] = t[p][h]

\* One more reference to o, and as many as before to everything else.
Adds(t, T, o) ==
    /\ References(T, o) = References(t, o) + 1
    /\ \A u \in Object : u # o => References(T, u) = References(t, u)

LEMMA Constants ==
    /\ Service \in Process /\ NoClient \notin Process /\ Client \subseteq Process
    /\ \A c \in Client : c # Service
    /\ \A p \in Process : p # Service => p \in Client
    /\ MaxObjects \in Nat /\ MaxCalls \in Nat /\ BufferWords \in Nat /\ BufferWords >= 9
    /\ CurrentProcess \in Nat /\ CurrentProcess # 0 /\ IsFiniteSet(Client)
    /\ Object \subseteq Nat /\ NoObject \notin Object /\ NoObject = 0 /\ NoHandle = 0
<1>1. IsFiniteSet(Client)
  <2>1. IsFiniteSet(Process) /\ Client \in SUBSET Process
    BY TransferAssumption DEF Client
  <2>2. QED
    BY <2>1, FS_Subset
<1>2. Service \in Process /\ NoClient \notin Process /\ BufferWords >= 9
  BY TransferAssumption
<1>3. MaxObjects \in Nat /\ MaxCalls \in Nat
  BY TransferAssumption
<1>4. BufferWords \in Nat /\ CurrentProcess \in Nat /\ CurrentProcess # 0 /\ NoHandle = 0
  BY IpcAssumption DEF NoHandle
<1>5. Object \subseteq Nat /\ NoObject \notin Object /\ NoObject = 0
  BY <1>3 DEF Object, NoObject
<1>6. Client \subseteq Process /\ (\A c \in Client : c # Service) /\ \A p \in Process : p # Service => p \in Client
  BY DEF Client
<1>7. QED
  BY <1>1, <1>2, <1>3, <1>4, <1>5, <1>6

LEMMA RefsMember ==
    ASSUME NEW t, NEW o
    PROVE  /\ \A p \in Process : \A h : <<p, h>> \in Refs(t, o) <=> h \in DOMAIN t[p] /\ t[p][h] = o
           /\ \A x \in Refs(t, o) : \E p \in Process : \E h : x = <<p, h>>
  BY DEF Refs

\* The same references.
LEMMA SameRefs ==
    ASSUME NEW t, NEW T, NEW o,
           \A p \in Process : \A h : (h \in DOMAIN t[p] /\ t[p][h] = o) <=> (h \in DOMAIN T[p] /\ T[p][h] = o)
    PROVE  Refs(T, o) = Refs(t, o)
<1>1. ASSUME NEW x \in Refs(T, o) PROVE x \in Refs(t, o)
  <2>1. PICK p \in Process : \E h : x = <<p, h>>
    BY RefsMember
  <2>2. PICK h : x = <<p, h>>
    BY <2>1
  <2>3. QED
    BY <2>2, RefsMember
<1>2. ASSUME NEW x \in Refs(t, o) PROVE x \in Refs(T, o)
  <2>1. PICK p \in Process : \E h : x = <<p, h>>
    BY RefsMember
  <2>2. PICK h : x = <<p, h>>
    BY <2>1
  <2>3. QED
    BY <2>2, RefsMember
<1>3. QED
  BY <1>1, <1>2

\* One reference more.
LEMMA OneMore ==
    ASSUME NEW t, NEW T, NEW o \in Object, NEW p \in Process, NEW k,
           \A u \in Object : IsFiniteSet(Refs(t, u)),
           \A q \in Process : q # p => T[q] = t[q],
           DOMAIN T[p] = DOMAIN t[p] \cup {k}, k \notin DOMAIN t[p], T[p][k] = o,
           \A h \in DOMAIN t[p] : T[p][h] = t[p][h]
    PROVE  Adds(t, T, o) /\ \A u \in Object : IsFiniteSet(Refs(T, u))
<1>1. ASSUME NEW u \in Object, u # o PROVE Refs(T, u) = Refs(t, u)
  <2>1. ASSUME NEW q \in Process, NEW h
        PROVE  (h \in DOMAIN t[q] /\ t[q][h] = u) <=> (h \in DOMAIN T[q] /\ T[q][h] = u)
    <3>1. CASE q # p
      BY <3>1, Zenon
    <3>2. CASE q = p
      BY <1>1, <3>2, Zenon
    <3>3. QED
      BY <3>1, <3>2
  <2>2. QED
    BY <2>1, SameRefs
<1>2. Refs(T, o) = Refs(t, o) \cup {<<p, k>>}
  <2>1. ASSUME NEW x \in Refs(T, o), x # <<p, k>> PROVE x \in Refs(t, o)
    <3>1. PICK q \in Process : \E h : x = <<q, h>>
      BY RefsMember
    <3>2. PICK h : x = <<q, h>>
      BY <3>1
    <3>a. <<q, h>> \in Refs(T, o)
      BY <2>1, <3>2
    <3>3. h \in DOMAIN T[q] /\ T[q][h] = o
      BY <3>a, RefsMember
    <3>4. q # p \/ h # k
      BY <2>1, <3>2, Zenon
    <3>5. h \in DOMAIN t[q] /\ t[q][h] = o
      BY <3>3, <3>4, Zenon
    <3>6. QED
      BY <3>2, <3>5, RefsMember, Zenon
  <2>2. ASSUME NEW x \in Refs(t, o) PROVE x \in Refs(T, o)
    <3>1. PICK q \in Process : \E h : x = <<q, h>>
      BY RefsMember
    <3>2. PICK h : x = <<q, h>>
      BY <3>1
    <3>a. <<q, h>> \in Refs(t, o)
      BY <2>2, <3>2
    <3>3. h \in DOMAIN t[q] /\ t[q][h] = o
      BY <3>a, RefsMember
    <3>4. h \in DOMAIN T[q] /\ T[q][h] = o
      <4>1. CASE q = p
        BY <3>3, <4>1, Zenon
      <4>2. CASE q # p
        BY <3>3, <4>2, Zenon
      <4>3. QED
        BY <4>1, <4>2
    <3>5. QED
      BY <3>2, <3>4, RefsMember, Zenon
  <2>3. <<p, k>> \in Refs(T, o)
    BY RefsMember, Zenon
  <2>4. QED
    BY <2>1, <2>2, <2>3, Zenon
<1>3. <<p, k>> \notin Refs(t, o)
  BY RefsMember, Zenon
<1>4. IsFiniteSet(Refs(T, o)) /\ Cardinality(Refs(T, o)) = Cardinality(Refs(t, o)) + 1
  <2>1. PICK S : S = Refs(t, o)
    OBVIOUS
  <2>2. PICK x : x = <<p, k>>
    OBVIOUS
  <2>3. IsFiniteSet(S) /\ x \notin S
    BY <1>3, <2>1, <2>2, Zenon
  <2>4. IsFiniteSet(S \cup {x}) /\ Cardinality(S \cup {x}) = Cardinality(S) + 1
    BY <2>3, FS_AddElement
  <2>5. QED
    BY <1>2, <2>1, <2>2, <2>4, Zenon
<1>5. References(T, o) = References(t, o) + 1
  BY <1>4 DEF References, Refs
<1>6. \A u \in Object : u # o => References(T, u) = References(t, u)
  BY <1>1, Zenon DEF References, Refs
<1>7. \A u \in Object : IsFiniteSet(Refs(T, u))
  <2>1. ASSUME NEW u \in Object PROVE IsFiniteSet(Refs(T, u))
    <3>1. CASE u = o
      BY <1>4, <3>1, Zenon
    <3>2. CASE u # o
      BY <1>1, <3>2, Zenon
    <3>3. QED
      BY <3>1, <3>2
  <2>2. QED
    BY <2>1
<1>8. QED
  BY <1>5, <1>6, <1>7 DEF Adds

LEMMA InsertHandleOK ==
    ASSUME NEW t, NEW d, Tables(t, d), NEW p \in Process, NEW o \in Object,
           NEW r, r = InsertHandle(t, d, p, o)
    PROVE  Tables(r.table, r.drawn) /\ Inserted(t, d, r.table, r.drawn, p, o) /\ Adds(t, r.table, o)
<1>1. PICK n \in Nat : n = d[p]
  BY DEF Tables
<1>2. PICK f : f = t[p]
  OBVIOUS
<1>3. HandleTable(f, n)
  BY <1>1, <1>2 DEF Tables
<1>4. PICK g : g = [h \in DOMAIN f \cup {n + 1} |-> IF h = n + 1 THEN o ELSE f[h]]
  OBVIOUS
<1>5. DOMAIN g = DOMAIN f \cup {n + 1} /\ g[n + 1] = o /\ \A h \in DOMAIN f : h # n + 1 => g[h] = f[h]
  BY <1>4
<1>6. n + 1 \notin DOMAIN f
  BY <1>3 DEF HandleTable
<1>7. HandleTable(g, n + 1)
  <2>1. g = [h \in DOMAIN g |-> g[h]]
    BY <1>4
  <2>2. DOMAIN g \subseteq 1..(n + 1)
    <3>1. \A h \in DOMAIN f : h \in 1..n
      BY <1>3 DEF HandleTable
    <3>2. \A h \in 1..n : h \in 1..(n + 1)
      OBVIOUS
    <3>3. n + 1 \in 1..(n + 1)
      OBVIOUS
    <3>4. QED
      BY <1>5, <3>1, <3>2, <3>3, Zenon
  <2>3. ASSUME NEW h \in DOMAIN g PROVE g[h] \in Object
    <3>1. CASE h = n + 1
      BY <3>1, <1>5, Zenon
    <3>2. CASE h # n + 1
      <4>1. h \in DOMAIN f /\ g[h] = f[h]
        BY <3>2, <1>5, Zenon
      <4>2. QED
        BY <4>1, <1>3, Zenon DEF HandleTable
    <3>3. QED
      BY <3>1, <3>2
  <2>4. QED
    BY <2>1, <2>2, <2>3, Zenon DEF HandleTable
<1>8. r.table = [t EXCEPT ![p] = g] /\ r.drawn = [d EXCEPT ![p] = n + 1]
  BY <1>1, <1>2, <1>4 DEF InsertHandle
<1>9. PICK T : T = r.table
  OBVIOUS
<1>10. PICK D : D = r.drawn
  OBVIOUS
<1>11. T[p] = g /\ \A q \in Process : q # p => T[q] = t[q]
  BY <1>8, <1>9 DEF Tables
<1>12. D[p] = n + 1 /\ (\A q \in Process : q # p => D[q] = d[q]) /\ D \in [Process -> Nat]
  BY <1>8, <1>10 DEF Tables
<1>13. T = [q \in Process |-> T[q]]
  BY <1>8, <1>9 DEF Tables
<1>14. \A q \in Process : HandleTable(T[q], D[q])
  <2>1. \A q \in Process : q # p => HandleTable(T[q], D[q])
    BY <1>11, <1>12, Zenon DEF Tables
  <2>2. HandleTable(T[p], D[p])
    BY <1>7, <1>11, <1>12, Zenon
  <2>3. QED
    BY <2>1, <2>2, Zenon
<1>15. Inserted(t, d, T, D, p, o)
  <2>1. \A h \in DOMAIN f : g[h] = f[h]
    BY <1>5, <1>6, Zenon
  <2>2. QED
    BY <1>1, <1>2, <1>5, <1>6, <1>11, <1>12, <2>1, Zenon DEF Inserted
<1>16. Adds(t, T, o) /\ \A u \in Object : IsFiniteSet(Refs(T, u))
  <2>1. PICK k : k = d[p] + 1
    OBVIOUS
  <2>2. /\ \A q \in Process : q # p => T[q] = t[q]
        /\ DOMAIN T[p] = DOMAIN t[p] \cup {k} /\ k \notin DOMAIN t[p] /\ T[p][k] = o
        /\ \A h \in DOMAIN t[p] : T[p][h] = t[p][h]
    BY <1>15, <2>1, Zenon DEF Inserted
  <2>3. \A u \in Object : IsFiniteSet(Refs(t, u))
    BY DEF Tables
  <2>4. QED
    BY <2>2, <2>3, OneMore, Zenon
<1>17. Tables(T, D)
  BY <1>12, <1>13, <1>14, <1>16, Zenon DEF Tables
<1>18. QED
  BY <1>9, <1>10, <1>15, <1>16, <1>17, Zenon

LEMMA RemoveHandleOK ==
    ASSUME NEW t, NEW d, Tables(t, d), NEW p \in Process, NEW handle \in DOMAIN t[p],
           NEW T, T = RemoveHandle(t, p, handle)
    PROVE  Tables(T, d) /\ Removed(t, T, p, handle) /\ Adds(T, t, t[p][handle])
<1>1. PICK n \in Nat : n = d[p]
  BY DEF Tables
<1>2. PICK f : f = t[p]
  OBVIOUS
<1>3. HandleTable(f, n)
  BY <1>1, <1>2 DEF Tables
<1>4. PICK g : g = [h \in DOMAIN f \ {handle} |-> f[h]]
  OBVIOUS
<1>5. DOMAIN g = DOMAIN f \ {handle} /\ \A h \in DOMAIN g : g[h] = f[h]
  BY <1>4
<1>6. HandleTable(g, n)
  <2>1. g = [h \in DOMAIN g |-> g[h]]
    BY <1>4
  <2>2. QED
    BY <2>1, <1>3, <1>5, Zenon DEF HandleTable
<1>7. T = [t EXCEPT ![p] = g]
  BY <1>2, <1>4 DEF RemoveHandle
<1>8. T[p] = g /\ (\A q \in Process : q # p => T[q] = t[q]) /\ T = [q \in Process |-> T[q]]
  BY <1>7 DEF Tables
<1>9. \A q \in Process : HandleTable(T[q], d[q])
  <2>1. \A q \in Process : q # p => HandleTable(T[q], d[q])
    BY <1>8, Zenon DEF Tables
  <2>2. HandleTable(T[p], d[p])
    BY <1>1, <1>6, <1>8, Zenon
  <2>3. QED
    BY <2>1, <2>2, Zenon
<1>10. Removed(t, T, p, handle)
  BY <1>2, <1>5, <1>8, Zenon DEF Removed
<1>11. \A u \in Object : IsFiniteSet(Refs(T, u))
  <2> TAKE u \in Object
  <2>1. Refs(T, u) \subseteq Refs(t, u)
    <3>1. ASSUME NEW x \in Refs(T, u) PROVE x \in Refs(t, u)
      <4>1. PICK q \in Process : \E h : x = <<q, h>>
        BY RefsMember
      <4>2. PICK h : x = <<q, h>>
        BY <4>1
      <4>a. <<q, h>> \in Refs(T, u)
        BY <3>1, <4>2
      <4>3. h \in DOMAIN T[q] /\ T[q][h] = u
        BY <4>a, RefsMember
      <4>4. h \in DOMAIN t[q] /\ t[q][h] = u
        <5>1. CASE q = p
          BY <4>3, <5>1, <1>10, Zenon DEF Removed
        <5>2. CASE q # p
          BY <4>3, <5>2, <1>10, Zenon DEF Removed
        <5>3. QED
          BY <5>1, <5>2
      <4>5. QED
        BY <4>2, <4>4, RefsMember, Zenon
    <3>2. QED
      BY <3>1
  <2>2. IsFiniteSet(Refs(t, u))
    BY DEF Tables
  <2>3. QED
    BY <2>1, <2>2, FS_Subset
<1>12. Adds(T, t, t[p][handle])
  <2>1. PICK o \in Object : o = t[p][handle]
    BY DEF Tables, HandleTable
  <2>2. /\ \A q \in Process : q # p => t[q] = T[q]
        /\ DOMAIN t[p] = DOMAIN T[p] \cup {handle} /\ handle \notin DOMAIN T[p] /\ t[p][handle] = o
        /\ \A h \in DOMAIN T[p] : t[p][h] = T[p][h]
    BY <1>10, <2>1, Zenon DEF Removed
  <2>3. QED
    BY <1>11, <2>1, <2>2, OneMore, Zenon
<1>13. QED
  BY <1>8, <1>9, <1>10, <1>11, <1>12, Zenon DEF Tables

\* What a handle names after an object was inserted or a handle removed.
LEMMA NamedInserted ==
    ASSUME NEW t, NEW d, NEW T, NEW D, NEW p \in Process, NEW o, Inserted(t, d, T, D, p, o)
    PROVE  /\ \A x : Named(T, p, x) = IF x = d[p] + 1 THEN o ELSE Named(t, p, x)
           /\ \A q \in Process : q # p => \A x : Named(T, q, x) = Named(t, q, x)
<1>1. ASSUME NEW x PROVE Named(T, p, x) = IF x = d[p] + 1 THEN o ELSE Named(t, p, x)
  <2>1. CASE x = d[p] + 1
    BY <2>1, Zenon DEF Inserted, Named
  <2>2. CASE x # d[p] + 1
    BY <2>2, Zenon DEF Inserted, Named
  <2>3. QED
    BY <2>1, <2>2
<1>2. ASSUME NEW q \in Process, q # p, NEW x PROVE Named(T, q, x) = Named(t, q, x)
  BY <1>2, Zenon DEF Inserted, Named
<1>3. QED
  BY <1>1, <1>2, Zenon

LEMMA NamedRemoved ==
    ASSUME NEW t, NEW T, NEW p \in Process, NEW handle, Removed(t, T, p, handle)
    PROVE  /\ \A x : Named(T, p, x) = IF x = handle THEN NoObject ELSE Named(t, p, x)
           /\ \A q \in Process : q # p => \A x : Named(T, q, x) = Named(t, q, x)
<1>1. ASSUME NEW x PROVE Named(T, p, x) = IF x = handle THEN NoObject ELSE Named(t, p, x)
  <2>1. CASE x \in DOMAIN T[p]
    BY <2>1, Zenon DEF Removed, Named
  <2>2. CASE x \notin DOMAIN T[p]
    <3>1. x = handle \/ x \notin DOMAIN t[p]
      BY <2>2, Zenon DEF Removed
    <3>2. QED
      BY <2>2, <3>1, Zenon DEF Named
  <2>3. QED
    BY <2>1, <2>2
<1>2. ASSUME NEW q \in Process, q # p, NEW x PROVE Named(T, q, x) = Named(t, q, x)
  BY <1>2, Zenon DEF Removed, Named
<1>3. QED
  BY <1>1, <1>2, Zenon

\* What is named is an object, and its handle has been drawn.
LEMMA NamedDrawn ==
    ASSUME NEW t, NEW d, Tables(t, d), NEW p \in Process, NEW h
    PROVE  /\ h \in DOMAIN t[p] => /\ Named(t, p, h) \in Object /\ Named(t, p, h) # NoObject
                                   /\ h \in Nat /\ 1 <= h /\ h <= d[p]
           /\ h \notin DOMAIN t[p] => Named(t, p, h) = NoObject
           /\ Named(t, p, 0) = NoObject
           /\ Named(t, p, h) \in Object \cup {NoObject}
<1>1. HandleTable(t[p], d[p]) /\ d[p] \in Nat
  BY DEF Tables
<1>2. ASSUME NEW x \in DOMAIN t[p] PROVE x \in Nat /\ 1 <= x /\ x <= d[p] /\ t[p][x] \in Object
  <2>1. x \in 1..d[p] /\ t[p][x] \in Object
    BY <1>1 DEF HandleTable
  <2>2. \A n \in Nat : \A y \in 1..n : y \in Nat /\ 1 <= y /\ y <= n
    OBVIOUS
  <2>3. QED
    BY <1>1, <2>1, <2>2, Zenon
<1>3. 0 \notin DOMAIN t[p]
  <2>1. ~(1 <= 0)
    OBVIOUS
  <2>2. QED
    BY <1>2, <2>1, Zenon
<1>4. NoObject \notin Object
  BY Constants
<1>5. QED
  BY <1>2, <1>3, <1>4, Zenon DEF Named

-----------------------------------------------------------------------------
(* The handles of a parameter *)

\* translate_handle's state: it has tables and the handles translated so far.
State(a) ==
    /\ a = [table |-> a.table, drawn |-> a.drawn, handles |-> a.handles]
    /\ Tables(a.table, a.drawn) /\ a.handles \in Seq(Nat)

\* Nobody but p and q is concerned, and q draws at most n handles.
Draws(t, d, T, D, n, p, q) ==
    /\ \A r \in Process : r # q => D[r] = d[r]
    /\ \A r \in Process : r # p /\ r # q => T[r] = t[r]
    /\ d[q] <= D[q] /\ D[q] <= d[q] + n

\* b is a after handle h: q has a handle for what h named, and p has lost h if it is moved.
Took(a, b, h, moved, p, q) ==
    /\ \E out \in Nat : /\ b.handles = Append(a.handles, out) /\ out <= b.drawn[q]
                        /\ Named(b.table, q, out) = Named(a.table, p, h)
    /\ \A x \in Nat : x <= a.drawn[q] => Named(b.table, q, x) = Named(a.table, q, x)
    /\ \A x : Named(b.table, p, x) = IF moved /\ x = h THEN NoObject ELSE Named(a.table, p, x)
    /\ \A o \in Object : References(b.table, o) =
           IF ~moved /\ Named(a.table, p, h) = o THEN References(a.table, o) + 1
                                                 ELSE References(a.table, o)

LEMMA HandleMissing ==
    ASSUME NEW a, State(a), NEW h, NEW moved, NEW p \in Process, NEW q \in Process, p # q,
           h \notin DOMAIN a.table[p], NEW b, b = TranslateHandle(a, h, moved, p, q)
    PROVE  State(b) /\ Took(a, b, h, moved, p, q) /\ Draws(a.table, a.drawn, b.table, b.drawn, 1, p, q)
<1>1. b = [a EXCEPT !.handles = Append(a.handles, NoHandle)]
  BY DEF TranslateHandle
<1>2. PICK s \in Seq(Nat) : s = Append(a.handles, NoHandle)
  <2>1. NoHandle \in Nat /\ a.handles \in Seq(Nat)
    BY DEF NoHandle, State
  <2>2. Append(a.handles, NoHandle) \in Seq(Nat)
    BY <2>1
  <2>3. QED
    BY <2>2
<1>3. b = [table |-> a.table, drawn |-> a.drawn, handles |-> s]
  BY <1>1, <1>2 DEF State
<1>4. b.table = a.table /\ b.drawn = a.drawn /\ b.handles = s
  BY <1>3
<1>5. State(b)
  BY <1>3, <1>4, Zenon DEF State
<1>6. Tables(a.table, a.drawn)
  BY DEF State
<1>7. Named(a.table, p, h) = NoObject /\ Named(a.table, q, 0) = NoObject
  BY <1>6, NamedDrawn, Zenon
<1>8. a.drawn \in [Process -> Nat]
  BY <1>6 DEF Tables
<1>9. Draws(a.table, a.drawn, b.table, b.drawn, 1, p, q)
  BY <1>4, <1>8 DEF Draws
<1>10. NoObject \notin Object /\ NoHandle = 0 /\ 0 \in Nat
  BY Constants
<1>11. 0 <= b.drawn[q]
  BY <1>4, <1>8
<1>12. \E out \in Nat : /\ b.handles = Append(a.handles, out) /\ out <= b.drawn[q]
                        /\ Named(b.table, q, out) = Named(a.table, p, h)
  BY <1>2, <1>4, <1>7, <1>10, <1>11, Zenon
<1>13. \A x : Named(b.table, p, x) = IF moved /\ x = h THEN NoObject ELSE Named(a.table, p, x)
  BY <1>4, <1>7, Zenon
<1>14. \A o \in Object : References(b.table, o) =
           IF ~moved /\ Named(a.table, p, h) = o THEN References(a.table, o) + 1
                                                 ELSE References(a.table, o)
  BY <1>4, <1>7, <1>10, Zenon
<1>15. QED
  BY <1>4, <1>5, <1>9, <1>12, <1>13, <1>14, Zenon DEF Took

\* t1 is t without the handle if it is moved, and r has what it named in q's table.
LEMMA HandleFound ==
    ASSUME NEW a, State(a), NEW h, NEW moved, NEW p \in Process, NEW q \in Process, p # q,
           h \in DOMAIN a.table[p], NEW b, b = TranslateHandle(a, h, moved, p, q)
    PROVE  State(b) /\ Took(a, b, h, moved, p, q) /\ Draws(a.table, a.drawn, b.table, b.drawn, 1, p, q)
<1>1. PICK t : t = a.table
  OBVIOUS
<1>2. PICK d : d = a.drawn
  OBVIOUS
<1>3. Tables(t, d) /\ a.handles \in Seq(Nat)
  BY <1>1, <1>2, Zenon DEF State
<1>4. PICK o \in Object : o = t[p][h] /\ o = Named(t, p, h)
  BY <1>1, <1>3, NamedDrawn, Zenon DEF Named
<1>5. PICK t1 : t1 = IF moved THEN RemoveHandle(t, p, h) ELSE t
  OBVIOUS
<1>6. /\ Tables(t1, d) /\ \A r \in Process : r # p => t1[r] = t[r]
      /\ \A x : Named(t1, p, x) = IF moved /\ x = h THEN NoObject ELSE Named(t, p, x)
      /\ moved => Adds(t1, t, o)
      /\ ~moved => t1 = t
  <2>1. CASE moved
    <3>1. t1 = RemoveHandle(t, p, h)
      BY <1>5, <2>1
    <3>2. Tables(t1, d) /\ Removed(t, t1, p, h) /\ Adds(t1, t, o)
      BY <1>1, <1>3, <1>4, <3>1, RemoveHandleOK, Zenon
    <3>3. \A x : Named(t1, p, x) = IF x = h THEN NoObject ELSE Named(t, p, x)
      BY <3>2, NamedRemoved
    <3>4. \A r \in Process : r # p => t1[r] = t[r]
      BY <3>2 DEF Removed
    <3>5. QED
      BY <2>1, <3>2, <3>3, <3>4, Zenon
  <2>2. CASE ~moved
    BY <1>3, <1>5, <2>2, Zenon
  <2>3. QED
    BY <2>1, <2>2
<1>7. PICK in : in = InsertHandle(t1, d, q, o)
  OBVIOUS
<1>8. PICK T : T = in.table
  OBVIOUS
<1>9. PICK D : D = in.drawn
  OBVIOUS
<1>10. Tables(T, D) /\ Inserted(t1, d, T, D, q, o) /\ Adds(t1, T, o)
  BY <1>4, <1>6, <1>7, <1>8, <1>9, InsertHandleOK, Zenon
<1>11. PICK k : k = D[q]
  OBVIOUS
<1>12. d \in [Process -> Nat] /\ D \in [Process -> Nat]
  BY <1>3, <1>10, Zenon DEF Tables
<1>13. k = d[q] + 1 /\ d[q] \in Nat
  BY <1>10, <1>11, <1>12 DEF Inserted
<1>14. k \in Nat
  BY <1>13
<1>15. b = [table |-> T, drawn |-> D, handles |-> Append(a.handles, k)]
  <2>1. b = [table |-> in.table, drawn |-> in.drawn, handles |-> Append(a.handles, in.drawn[q])]
    BY <1>1, <1>2, <1>4, <1>5, <1>7, Zenon DEF TranslateHandle
  <2>2. QED
    BY <1>8, <1>9, <1>11, <2>1, Zenon
<1>16. b.table = T /\ b.drawn = D /\ b.handles = Append(a.handles, k)
  BY <1>15
<1>17. Append(a.handles, k) \in Seq(Nat)
  BY <1>3, <1>14
<1>18. State(b)
  BY <1>10, <1>15, <1>16, <1>17, Zenon DEF State
<1>19. /\ \A x : Named(T, q, x) = IF x = d[q] + 1 THEN o ELSE Named(t1, q, x)
       /\ \A r \in Process : r # q => \A x : Named(T, r, x) = Named(t1, r, x)
  BY <1>10, NamedInserted
<1>20. \A x : Named(t1, q, x) = Named(t, q, x)
  BY <1>6, Zenon DEF Named
<1>21. Draws(t, d, T, D, 1, p, q)
  <2>1. \A r \in Process : r # q => D[r] = d[r] /\ T[r] = t1[r]
    BY <1>10, Zenon DEF Inserted
  <2>2. d[q] <= D[q] /\ D[q] <= d[q] + 1
    BY <1>11, <1>13
  <2>3. QED
    BY <1>6, <2>1, <2>2, Zenon DEF Draws
<1>22. \E out \in Nat : /\ b.handles = Append(a.handles, out) /\ out <= D[q]
                        /\ Named(T, q, out) = Named(t, p, h)
  <2>1. k <= D[q]
    BY <1>11, <1>14
  <2>2. Named(T, q, k) = o
    BY <1>13, <1>19, Zenon
  <2>3. QED
    BY <1>4, <1>14, <1>16, <2>1, <2>2, Zenon
<1>23. \A x \in Nat : x <= d[q] => Named(T, q, x) = Named(t, q, x)
  <2>1. \A x \in Nat : x <= d[q] => x # d[q] + 1
    BY <1>13
  <2>2. QED
    BY <2>1, <1>19, <1>20, Zenon
<1>24. \A x : Named(T, p, x) = IF moved /\ x = h THEN NoObject ELSE Named(t, p, x)
  BY <1>6, <1>19, Zenon
<1>25. ASSUME NEW u \in Object
       PROVE  References(T, u) = IF ~moved /\ Named(t, p, h) = u THEN References(t, u) + 1
                                                                 ELSE References(t, u)
  <2>0. IsFiniteSet(Refs(t, u)) /\ IsFiniteSet(Refs(t1, u)) /\ IsFiniteSet(Refs(T, u))
    BY <1>3, <1>6, <1>10, Zenon DEF Tables
  <2>1. References(t, u) \in Nat /\ References(t1, u) \in Nat /\ References(T, u) \in Nat
    BY <2>0, FS_CardinalityType, Zenon DEF References, Refs
  <2>2. CASE u = o
    <3>1. References(T, u) = References(t1, u) + 1
      BY <1>10, <2>2, Zenon DEF Adds
    <3>2. moved => References(t, u) = References(t1, u) + 1
      BY <1>6, <2>2, Zenon DEF Adds
    <3>3. ~moved => References(t1, u) = References(t, u)
      BY <1>6, Zenon
    <3>4. Named(t, p, h) = u
      BY <1>4, <2>2, Zenon
    <3>5. QED
      BY <3>1, <3>2, <3>3, <3>4, Zenon
  <2>3. CASE u # o
    <3>1. References(T, u) = References(t1, u)
      BY <1>10, <2>3, Zenon DEF Adds
    <3>2. References(t1, u) = References(t, u)
      BY <1>6, <2>3, Zenon DEF Adds
    <3>3. Named(t, p, h) # u
      BY <1>4, <2>3, Zenon
    <3>4. QED
      BY <3>1, <3>2, <3>3, Zenon
  <2>4. QED
    BY <2>2, <2>3
<1>26. Took(a, b, h, moved, p, q)
  BY <1>1, <1>2, <1>16, <1>22, <1>23, <1>24, <1>25, Zenon DEF Took
<1>27. QED
  BY <1>1, <1>2, <1>16, <1>18, <1>21, <1>26, Zenon

\* The object that a handle of the message means: none if the message has moved it before.
Meant(t, p, moved, hs, i) ==
    IF moved /\ \E j \in 1..(i - 1) : hs[j] = hs[i] THEN NoObject ELSE Named(t, p, hs[i])

\* What p's handles name when n handles of the message have been translated.
Left(t, p, moved, hs, n, x) ==
    IF moved /\ \E j \in 1..n : hs[j] = x THEN NoObject ELSE Named(t, p, x)

\* The places of a message's handles that name o, in the parameter L.
Pairs(t, p, hs, n, L, o) == {x \in {L} \X (1..n) : Named(t, p, hs[x[2]]) = o}

Arrived(a, b, hs, n, moved, p, q) ==
    /\ Len(b.handles) = n
    /\ \A i \in 1..n : /\ b.handles[i] <= b.drawn[q]
                       /\ Named(b.table, q, b.handles[i]) = Meant(a.table, p, moved, hs, i)
    /\ \A x : Named(b.table, p, x) = Left(a.table, p, moved, hs, n, x)

\* A copy is a new reference, a move is not.
Counted(a, b, hs, n, moved, p) ==
    \A o \in Object, L \in Nat :
        /\ IsFiniteSet(Pairs(a.table, p, hs, n, L, o))
        /\ References(b.table, o) =
               IF moved THEN References(a.table, o)
               ELSE References(a.table, o) + Cardinality(Pairs(a.table, p, hs, n, L, o))

\* n handles of the message have been translated.
Run(a, b, hs, n, moved, p, q) ==
    /\ State(b) /\ Draws(a.table, a.drawn, b.table, b.drawn, n, p, q)
    /\ Arrived(a, b, hs, n, moved, p, q) /\ Counted(a, b, hs, n, moved, p)

LEMMA ReferencesNat ==
    ASSUME NEW t, NEW d, Tables(t, d), NEW o \in Object
    PROVE  References(t, o) \in Nat
<1>1. IsFiniteSet(Refs(t, o))
  BY DEF Tables
<1>2. QED
  BY <1>1, FS_CardinalityType, Zenon DEF References, Refs

LEMMA PairsStep ==
    ASSUME NEW t, NEW p, NEW hs, NEW n \in Nat, NEW L \in Nat, NEW o,
           IsFiniteSet(Pairs(t, p, hs, n, L, o))
    PROVE  /\ IsFiniteSet(Pairs(t, p, hs, n + 1, L, o))
           /\ Cardinality(Pairs(t, p, hs, n + 1, L, o)) =
                  IF Named(t, p, hs[n + 1]) = o THEN Cardinality(Pairs(t, p, hs, n, L, o)) + 1
                                                ELSE Cardinality(Pairs(t, p, hs, n, L, o))
<1>0. (\A i : i \in 1..(n + 1) <=> i \in 1..n \/ i = n + 1) /\ n + 1 \notin 1..n
  OBVIOUS
<1>a. PICK m : m = n + 1
  OBVIOUS
<1>1. CASE Named(t, p, hs[m]) = o
  <2>1. Pairs(t, p, hs, m, L, o) = Pairs(t, p, hs, n, L, o) \cup {<<L, m>>}
    <3>1. ASSUME NEW x
          PROVE  x \in Pairs(t, p, hs, m, L, o) <=> x \in Pairs(t, p, hs, n, L, o) \/ x = <<L, m>>
      <4>1. x \in {L} \X (1..m) <=> x \in {L} \X (1..n) \/ x = <<L, m>>
        BY <1>0, <1>a
      <4>2. x = <<L, m>> => x[2] = m
        OBVIOUS
      <4>3. QED
        BY <1>1, <4>1, <4>2 DEF Pairs
    <3>2. QED
      BY <3>1, Zenon
  <2>2. <<L, m>> \notin Pairs(t, p, hs, n, L, o)
    BY <1>0, <1>a DEF Pairs
  <2>3. QED
    BY <1>a, <1>1, <2>1, <2>2, FS_AddElement
<1>2. CASE Named(t, p, hs[m]) # o
  <2>1. Pairs(t, p, hs, m, L, o) = Pairs(t, p, hs, n, L, o)
    <3>1. ASSUME NEW x
          PROVE  x \in Pairs(t, p, hs, m, L, o) <=> x \in Pairs(t, p, hs, n, L, o)
      <4>1. x \in {L} \X (1..m) <=> x \in {L} \X (1..n) \/ x = <<L, m>>
        BY <1>0, <1>a
      <4>2. x = <<L, m>> => x[2] = m
        OBVIOUS
      <4>3. QED
        BY <1>2, <4>1, <4>2 DEF Pairs
    <3>2. QED
      BY <3>1, Zenon
  <2>2. QED
    BY <1>a, <1>2, <2>1, Zenon
<1>3. QED
  BY <1>1, <1>2

LEMMA RunStart ==
    ASSUME NEW a, State(a), a.handles = <<>>, NEW hs, NEW moved, NEW p, NEW q \in Process
    PROVE  Run(a, a, hs, 0, moved, p, q)
<1>1. Tables(a.table, a.drawn)
  BY DEF State
<1>2. Draws(a.table, a.drawn, a.table, a.drawn, 0, p, q)
  <2>1. a.drawn[q] \in Nat
    BY <1>1 DEF Tables
  <2>2. QED
    BY <2>1 DEF Draws
<1>3. Arrived(a, a, hs, 0, moved, p, q)
  <2>1. Len(a.handles) = 0 /\ 1..0 = {}
    OBVIOUS
  <2>2. QED
    BY <2>1, Zenon DEF Arrived, Left
<1>4. Counted(a, a, hs, 0, moved, p)
  <2> SUFFICES ASSUME NEW o \in Object, NEW L \in Nat
               PROVE  /\ IsFiniteSet(Pairs(a.table, p, hs, 0, L, o))
                      /\ References(a.table, o) =
                             IF moved THEN References(a.table, o)
                             ELSE References(a.table, o) + Cardinality(Pairs(a.table, p, hs, 0, L, o))
    BY Zenon DEF Counted
  <2>1. Pairs(a.table, p, hs, 0, L, o) = {}
    BY DEF Pairs
  <2>2. IsFiniteSet({}) /\ Cardinality({}) = 0
    BY FS_EmptySet
  <2>3. References(a.table, o) \in Nat
    BY <1>1, ReferencesNat, Zenon
  <2>4. References(a.table, o) + 0 = References(a.table, o)
    BY <2>3
  <2>5. QED
    BY <2>1, <2>2, <2>4, Zenon
<1>5. QED
  BY <1>2, <1>3, <1>4 DEF Run

LEMMA RunStep ==
    ASSUME NEW a, State(a), NEW b, NEW hs \in Seq(Nat), NEW n \in Nat, n < Len(hs),
           NEW moved, NEW p \in Process, NEW q \in Process, p # q,
           Run(a, b, hs, n, moved, p, q),
           NEW c, c = TranslateHandle(b, hs[n + 1], moved, p, q)
    PROVE  Run(a, c, hs, n + 1, moved, p, q)
<1>1. PICK m \in Nat : m = n + 1
  OBVIOUS
<1>2. PICK h : h = hs[m]
  OBVIOUS
<1>3. m - 1 = n /\ (\A i : i \in 1..m <=> i \in 1..n \/ i = m) /\ m \notin 1..n
  BY <1>1
<1>4. /\ State(b) /\ Draws(a.table, a.drawn, b.table, b.drawn, n, p, q)
      /\ Arrived(a, b, hs, n, moved, p, q) /\ Counted(a, b, hs, n, moved, p)
  BY DEF Run
<1>5. State(c) /\ Took(b, c, h, moved, p, q) /\ Draws(b.table, b.drawn, c.table, c.drawn, 1, p, q)
  <2>1. c = TranslateHandle(b, h, moved, p, q)
    BY <1>1, <1>2
  <2>2. CASE h \in DOMAIN b.table[p]
    BY <1>4, <2>1, <2>2, HandleFound
  <2>3. CASE h \notin DOMAIN b.table[p]
    BY <1>4, <2>1, <2>3, HandleMissing
  <2>4. QED
    BY <2>2, <2>3
<1>6. Tables(a.table, a.drawn) /\ Tables(b.table, b.drawn) /\ Tables(c.table, c.drawn)
  BY <1>4, <1>5 DEF State
<1>7. a.drawn[q] \in Nat /\ b.drawn[q] \in Nat /\ c.drawn[q] \in Nat
  BY <1>6 DEF Tables
<1>8. Draws(a.table, a.drawn, c.table, c.drawn, m, p, q)
  <2>1. \A r \in Process : r # q => c.drawn[r] = a.drawn[r]
    BY <1>4, <1>5, Zenon DEF Draws
  <2>2. \A r \in Process : r # p /\ r # q => c.table[r] = a.table[r]
    BY <1>4, <1>5, Zenon DEF Draws
  <2>3. a.drawn[q] <= b.drawn[q] /\ b.drawn[q] <= a.drawn[q] + n
    BY <1>4 DEF Draws
  <2>4. b.drawn[q] <= c.drawn[q] /\ c.drawn[q] <= b.drawn[q] + 1
    BY <1>5 DEF Draws
  <2>5. a.drawn[q] <= c.drawn[q] /\ c.drawn[q] <= a.drawn[q] + m
    BY <1>1, <1>7, <2>3, <2>4
  <2>6. QED
    BY <2>1, <2>2, <2>5, Zenon DEF Draws
<1>9. \A x : Named(b.table, p, x) = Left(a.table, p, moved, hs, n, x)
  BY <1>4 DEF Arrived
<1>10. Named(b.table, p, h) = Meant(a.table, p, moved, hs, m)
  BY <1>2, <1>3, <1>9, Zenon DEF Left, Meant
<1>11. PICK out \in Nat : /\ c.handles = Append(b.handles, out) /\ out <= c.drawn[q]
                          /\ Named(c.table, q, out) = Named(b.table, p, h)
  BY <1>5 DEF Took
<1>12. Arrived(a, c, hs, m, moved, p, q)
  <2>1. b.handles \in Seq(Nat) /\ Len(b.handles) = n
    BY <1>4 DEF State, Arrived
  <2>2. /\ Len(c.handles) = m /\ c.handles[m] = out
        /\ \A i \in 1..n : c.handles[i] = b.handles[i] /\ b.handles[i] \in Nat
    <3>1. PICK s \in Seq(Nat) : s = b.handles /\ Len(s) = n
      BY <2>1
    <3>2. c.handles = Append(s, out)
      BY <1>11, <3>1
    <3>3. /\ Len(Append(s, out)) = n + 1 /\ Append(s, out)[n + 1] = out
          /\ \A i \in 1..n : Append(s, out)[i] = s[i] /\ s[i] \in Nat
      BY <3>1
    <3>4. QED
      BY <1>1, <3>1, <3>2, <3>3, Zenon
  <2>3. ASSUME NEW i \in 1..m
        PROVE  /\ c.handles[i] <= c.drawn[q]
               /\ Named(c.table, q, c.handles[i]) = Meant(a.table, p, moved, hs, i)
    <3>1. CASE i = m
      BY <1>10, <1>11, <2>2, <3>1, Zenon
    <3>2. CASE i # m
      <4>1. i \in 1..n
        BY <1>3, <3>2
      <4>2. /\ b.handles[i] <= b.drawn[q]
            /\ Named(b.table, q, b.handles[i]) = Meant(a.table, p, moved, hs, i)
        BY <1>4, <4>1 DEF Arrived
      <4>3. Named(c.table, q, b.handles[i]) = Named(b.table, q, b.handles[i])
        BY <1>5, <2>2, <4>1, <4>2, Zenon DEF Took
      <4>4. b.drawn[q] <= c.drawn[q]
        BY <1>5 DEF Draws
      <4>5. \A x, y, z \in Nat : x <= y /\ y <= z => x <= z
        OBVIOUS
      <4>6. b.handles[i] <= c.drawn[q]
        BY <1>7, <2>2, <4>1, <4>2, <4>4, <4>5, Zenon
      <4>7. QED
        BY <2>2, <4>1, <4>2, <4>3, <4>6, Zenon
    <3>3. QED
      BY <3>1, <3>2
  <2>4. ASSUME NEW x PROVE Named(c.table, p, x) = Left(a.table, p, moved, hs, m, x)
    <3>1. Named(c.table, p, x) = IF moved /\ x = h THEN NoObject ELSE Left(a.table, p, moved, hs, n, x)
      BY <1>5, <1>9, Zenon DEF Took
    <3>2. (\E j \in 1..m : hs[j] = x) <=> (\E j \in 1..n : hs[j] = x) \/ x = h
      BY <1>2, <1>3, Zenon
    <3>3. QED
      BY <3>1, <3>2, Zenon DEF Left
  <2>5. QED
    BY <2>2, <2>3, <2>4, Zenon DEF Arrived
<1>13. Counted(a, c, hs, m, moved, p)
  <2> SUFFICES ASSUME NEW o \in Object, NEW L \in Nat
               PROVE  /\ IsFiniteSet(Pairs(a.table, p, hs, m, L, o))
                      /\ References(c.table, o) =
                             IF moved THEN References(a.table, o)
                             ELSE References(a.table, o) + Cardinality(Pairs(a.table, p, hs, m, L, o))
    BY Zenon DEF Counted
  <2>1. /\ IsFiniteSet(Pairs(a.table, p, hs, n, L, o))
        /\ References(b.table, o) =
               IF moved THEN References(a.table, o)
               ELSE References(a.table, o) + Cardinality(Pairs(a.table, p, hs, n, L, o))
    BY <1>4, Zenon DEF Counted
  <2>2. /\ IsFiniteSet(Pairs(a.table, p, hs, m, L, o))
        /\ Cardinality(Pairs(a.table, p, hs, m, L, o)) =
               IF Named(a.table, p, h) = o THEN Cardinality(Pairs(a.table, p, hs, n, L, o)) + 1
                                           ELSE Cardinality(Pairs(a.table, p, hs, n, L, o))
    BY <1>1, <1>2, <2>1, PairsStep
  <2>3. References(c.table, o) =
           IF ~moved /\ Named(b.table, p, h) = o THEN References(b.table, o) + 1
                                                 ELSE References(b.table, o)
    BY <1>5, Zenon DEF Took
  <2>4. CASE moved
    BY <2>1, <2>2, <2>3, <2>4, Zenon
  <2>5. CASE ~moved
    <3>1. Named(b.table, p, h) = Named(a.table, p, h)
      BY <1>9, <2>5, Zenon DEF Left
    <3>2. PICK r \in Nat : r = References(a.table, o)
      BY <1>6, ReferencesNat
    <3>3. PICK k \in Nat : k = Cardinality(Pairs(a.table, p, hs, n, L, o))
      BY <2>1, FS_CardinalityType
    <3>4. (r + k) + 1 = r + (k + 1)
      OBVIOUS
    <3>5. QED
      BY <2>1, <2>2, <2>3, <2>5, <3>1, <3>2, <3>3, <3>4, Zenon
  <2>6. QED
    BY <2>4, <2>5
<1>14. QED
  BY <1>1, <1>5, <1>8, <1>12, <1>13, Zenon DEF Run

\* translate_ipc on the handles of a parameter, of any number: each arrives as the object
\* it meant, and every copy adds one reference.
LEMMA HandlesTranslated ==
    ASSUME NEW a, State(a), a.handles = <<>>, NEW st, st.table = a.table, st.drawn = a.drawn,
           NEW hs \in Seq(Nat), NEW moved, NEW p \in Process, NEW q \in Process, p # q
    PROVE  Run(a, TranslateHandles(st, hs, moved, p, q), hs, Len(hs), moved, p, q)
<1>1. PICK f : HandleRun(f, st, hs, moved, p, q) /\ TranslateHandles(st, hs, moved, p, q) = f[Len(hs)]
  BY TranslateHandlesEquation
<1>2. f[0] = a
  BY <1>1, Zenon DEF HandleRun, State
<1>3. PICK N \in Nat : N = Len(hs)
  OBVIOUS
<1> DEFINE T == {n \in Nat : n <= N => Run(a, f[n], hs, n, moved, p, q)}
<1>4. 0 \in T
  BY <1>2, RunStart
<1>5. ASSUME NEW n \in T PROVE n + 1 \in T
  <2>1. n \in Nat /\ n + 1 \in Nat
    OBVIOUS
  <2>2. SUFFICES ASSUME n + 1 <= N PROVE Run(a, f[n + 1], hs, n + 1, moved, p, q)
    BY <2>1
  <2>3. n <= N /\ n < Len(hs) /\ n + 1 \in 1..Len(hs) /\ (n + 1) - 1 = n
    BY <1>3, <2>1, <2>2
  <2>4. Run(a, f[n], hs, n, moved, p, q)
    BY <2>3
  <2>5. f[n + 1] = TranslateHandle(f[n], hs[n + 1], moved, p, q)
    BY <1>1, <2>3, Zenon DEF HandleRun
  <2> HIDE DEF T
  <2>6. QED
    BY <2>1, <2>3, <2>4, <2>5, RunStep, Zenon
<1>6. T = Nat
  <2>1. T \in SUBSET Nat
    OBVIOUS
  <2> HIDE DEF T
  <2>2. QED
    BY <2>1, <1>4, <1>5, SetInduction
<1>7. Run(a, f[N], hs, N, moved, p, q)
  <2>1. N \in T /\ N <= N
    BY <1>6
  <2>2. QED
    BY <2>1
<1>8. QED
  BY <1>1, <1>3, <1>7, Zenon

-----------------------------------------------------------------------------
(* The parameters of a message *)

\* A message with two translate parameters.
LEMMA WrittenTwo ==
    ASSUME NEW command \in Nat, NEW result \in Seq(Nat), NEW normals \in Seq(Nat),
           Len(normals) < 64, NEW reply, HasResult(result, reply), NEW b \in Seq(Nat),
           NEW x \in Param, NEW y \in Param, Len(x.handles) \in 1..20, Len(y.handles) \in 1..20
    PROVE  Delivered(Over(b, Written(command, result, normals, <<x, y>>)), b, reply, command,
                     result, normals, <<Seen(x), Seen(y)>>,
                     (1 + Len(x.handles)) + (1 + Len(y.handles)))
<1>1. PICK ps \in Seq(Param) : ps = <<x, y>> /\ Len(ps) = 2 /\ ps[1] = x /\ ps[2] = y
  <2>1. \E s \in Seq(Param) : s = <<x, y>> /\ Len(s) = 2 /\ s[1] = x /\ s[2] = y
    BY ListTwo
  <2>2. QED
    BY <2>1, Zenon
<1>b. PICK k \in 1..20 : k = Len(x.handles)
  OBVIOUS
<1>c. PICK l \in 1..20 : l = Len(y.handles)
  OBVIOUS
<1>d. k >= 1 /\ l >= 1 /\ (1 + k) + (1 + l) < 64
  OBVIOUS
<1>e. \A n \in 1..2 : n = 1 \/ n = 2
  OBVIOUS
<1>2. \A n \in 1..Len(ps) : Len(ps[n].handles) >= 1
  BY <1>1, <1>b, <1>c, <1>d, <1>e, Zenon
<1>3. /\ TranslateWords(x) \in Seq(Nat) /\ Len(TranslateWords(x)) = 1 + k
      /\ TranslateWords(y) \in Seq(Nat) /\ Len(TranslateWords(y)) = 1 + l
  BY <1>b, <1>c, <1>d, WordsOfParam, Zenon
<1>4. /\ [n \in 1..Len(ps) |-> TranslateWords(ps[n])] = <<TranslateWords(x), TranslateWords(y)>>
      /\ [n \in 1..Len(ps) |-> Seen(ps[n])] = <<Seen(x), Seen(y)>>
  BY <1>1
<1>5. PICK words : /\ words = FlattenSeq([n \in 1..Len(ps) |-> TranslateWords(ps[n])])
                   /\ words = TranslateWords(x) \o TranslateWords(y)
  BY <1>3, <1>4, FlattenTwo
<1>6. Len(words) = (1 + k) + (1 + l)
  BY <1>3, <1>5
<1>7. Len(words) < 64
  BY <1>6, <1>d, Zenon
<1>8. Delivered(Over(b, Written(command, result, normals, ps)), b, reply, command,
                result, normals, [n \in 1..Len(ps) |-> Seen(ps[n])], Len(words))
  BY <1>2, <1>5, <1>7, ReadWritten
<1>9. QED
  BY <1>1, <1>4, <1>6, <1>8, <1>b, <1>c, Zenon

Begin(t, d) == [table |-> t, drawn |-> d, handles |-> <<>>]

LEMMA BeginState ==
    ASSUME NEW t, NEW d, Tables(t, d)
    PROVE  State(Begin(t, d)) /\ Begin(t, d).table = t /\ Begin(t, d).drawn = d /\ Begin(t, d).handles = <<>>
<1>1. PICK a : a = Begin(t, d)
  OBVIOUS
<1>2. a.table = t /\ a.drawn = d /\ a.handles = <<>> /\ a = [table |-> t, drawn |-> d, handles |-> <<>>]
  BY <1>1 DEF Begin
<1>3. <<>> \in Seq(Nat)
  OBVIOUS
<1>4. QED
  BY <1>1, <1>2, <1>3, Zenon DEF State

LEMMA AppendPair ==
    ASSUME NEW u, NEW v
    PROVE  Append(<<u>>, v) = <<u, v>>
<1>1. PICK S : S = {u, v}
  OBVIOUS
<1>2. u \in S /\ v \in S
  BY <1>1
<1>3. PICK s \in Seq(S) : s = <<u>> /\ Len(s) = 1 /\ s[1] = u
  BY <1>2, ListOne
<1>4. PICK w \in Seq(S) : w = <<u, v>> /\ Len(w) = 2 /\ w[1] = u /\ w[2] = v
  BY <1>2, ListTwo
<1>5. PICK z \in Seq(S) : z = Append(s, v) /\ Len(z) = 2 /\ z[1] = u /\ z[2] = v
  <2>1. PICK z : z = Append(s, v)
    OBVIOUS
  <2>2. z \in Seq(S) /\ Len(z) = Len(s) + 1 /\ z[Len(s) + 1] = v /\ \A i \in 1..Len(s) : z[i] = s[i]
    BY <1>2, <2>1, AppendProperties
  <2>3. 1 + 1 = 2 /\ 1 \in 1..1
    OBVIOUS
  <2>4. QED
    BY <1>3, <2>1, <2>2, <2>3, Zenon
<1>6. \A i \in 1..2 : i = 1 \/ i = 2
  OBVIOUS
<1>7. z = w
  BY <1>4, <1>5, <1>6, SeqEqual, Zenon
<1>8. QED
  BY <1>3, <1>4, <1>5, <1>7, Zenon

\* all is the state after the parameters x and y: b is the one after x, c after y.
TwoDone(all, x, y, p, q) ==
    \E b, c :
        /\ Run(Begin(table, drawn), b, x.handles, Len(x.handles), x.moved, p, q)
        /\ Run(Begin(b.table, b.drawn), c, y.handles, Len(y.handles), y.moved, p, q)
        /\ all.table = c.table /\ all.drawn = c.drawn
        /\ all.params = <<HandleParam(x.moved, x.calling, b.handles),
                          HandleParam(y.moved, y.calling, c.handles)>>

\* What translate_ipc makes of the two parameters of a request, with or without a buffer
\* in front of them.
LEMMA TwoTranslated ==
    ASSUME NEW x \in Param, NEW y \in Param, x.handles # <<>>, y.handles # <<>>,
           NEW ps \in Seq(Param), ps = <<x, y>> \/ ps = <<StaticBuffer, x, y>>,
           NEW p \in Process, NEW q \in Process, p # q, Tables(table, drawn),
           NEW all, all = TranslateParams(ps, p, q)
    PROVE  TwoDone(all, x, y, p, q)
<1>1. PICK f : ParamRun(f, ps, p, q) /\ all = f[Len(ps)]
  BY TranslateParamsEquation
<1>2. PICK st : st = [table |-> table, drawn |-> drawn, params |-> <<>>]
  OBVIOUS
<1>3. st.table = table /\ st.drawn = drawn /\ st.params = <<>>
  BY <1>2
<1>4. PICK r : r = TranslateParam(st, x, p, q)
  OBVIOUS
<1>5. all = TranslateParam(r, y, p, q)
  <2>1. CASE ps = <<x, y>>
    <3>1. Len(ps) = 2 /\ 1 \in 1..Len(ps) /\ 2 \in 1..Len(ps) /\ ps[1] = x /\ ps[2] = y
      BY <2>1
    <3>2. 1 - 1 = 0 /\ 2 - 1 = 1
      OBVIOUS
    <3>3. f[0] = st /\ f[1] = TranslateParam(f[0], ps[1], p, q) /\ f[2] = TranslateParam(f[1], ps[2], p, q)
      BY <1>1, <1>2, <3>1, <3>2, Zenon DEF ParamRun
    <3>4. QED
      BY <1>1, <1>4, <3>1, <3>3, Zenon
  <2>2. CASE ps = <<StaticBuffer, x, y>>
    <3>1. /\ Len(ps) = 3 /\ 1 \in 1..Len(ps) /\ 2 \in 1..Len(ps) /\ 3 \in 1..Len(ps)
          /\ ps[1] = StaticBuffer /\ ps[2] = x /\ ps[3] = y
      BY <2>2
    <3>2. 1 - 1 = 0 /\ 2 - 1 = 1 /\ 3 - 1 = 2
      OBVIOUS
    <3>3. /\ f[0] = st /\ f[1] = TranslateParam(f[0], ps[1], p, q)
          /\ f[2] = TranslateParam(f[1], ps[2], p, q) /\ f[3] = TranslateParam(f[2], ps[3], p, q)
      BY <1>1, <1>2, <3>1, <3>2, Zenon DEF ParamRun
    <3>4. StaticBuffer.handles = <<>>
      BY DEF StaticBuffer, HandleParam
    <3>5. f[1] = st
      BY <3>1, <3>3, <3>4, Zenon DEF TranslateParam
    <3>6. QED
      BY <1>1, <1>4, <3>1, <3>3, <3>5, Zenon
  <2>3. QED
    BY <2>1, <2>2
<1>6. PICK b : b = TranslateHandles(st, x.handles, x.moved, p, q)
  OBVIOUS
<1>7. /\ r.table = b.table /\ r.drawn = b.drawn
      /\ r.params = Append(st.params, HandleParam(x.moved, x.calling, b.handles))
  <2>1. r = [table |-> b.table, drawn |-> b.drawn,
             params |-> Append(st.params, HandleParam(x.moved, x.calling, b.handles))]
    BY <1>4, <1>6, Zenon DEF TranslateParam
  <2>2. QED
    BY <2>1
<1>8. PICK c : c = TranslateHandles(r, y.handles, y.moved, p, q)
  OBVIOUS
<1>9. /\ all.table = c.table /\ all.drawn = c.drawn
      /\ all.params = Append(r.params, HandleParam(y.moved, y.calling, c.handles))
  <2>1. all = [table |-> c.table, drawn |-> c.drawn,
               params |-> Append(r.params, HandleParam(y.moved, y.calling, c.handles))]
    BY <1>5, <1>8, Zenon DEF TranslateParam
  <2>2. QED
    BY <2>1
<1>10. x.handles \in Seq(Nat) /\ y.handles \in Seq(Nat)
  BY DEF Param
<1>a. PICK a : /\ a = Begin(table, drawn) /\ State(a) /\ a.handles = <<>>
               /\ st.table = a.table /\ st.drawn = a.drawn
  <2>1. PICK a : a = Begin(table, drawn)
    OBVIOUS
  <2>2. State(a) /\ a.table = table /\ a.drawn = drawn /\ a.handles = <<>>
    BY <2>1, BeginState
  <2>3. QED
    BY <1>3, <2>1, <2>2, Zenon
<1>11. Run(a, b, x.handles, Len(x.handles), x.moved, p, q)
  BY <1>6, <1>10, <1>a, HandlesTranslated
<1>12. Tables(b.table, b.drawn)
  BY <1>11 DEF Run, State
<1>13. Run(Begin(b.table, b.drawn), c, y.handles, Len(y.handles), y.moved, p, q)
  BY <1>7, <1>8, <1>10, <1>12, BeginState, HandlesTranslated
<1>14. PICK u : u = HandleParam(x.moved, x.calling, b.handles)
  OBVIOUS
<1>15. PICK v : v = HandleParam(y.moved, y.calling, c.handles)
  OBVIOUS
<1>16. r.params = <<u>>
  BY <1>3, <1>7, <1>14
<1>17. all.params = <<u, v>>
  BY <1>9, <1>15, <1>16, AppendPair, Zenon
<1>18. QED
  BY <1>9, <1>11, <1>13, <1>14, <1>15, <1>17, <1>a, Zenon DEF TwoDone

\* all is the state after the parameter x.
OneDone(all, x, p, q) ==
    \E b : /\ Run(Begin(table, drawn), b, x.handles, Len(x.handles), x.moved, p, q)
           /\ all.table = b.table /\ all.drawn = b.drawn
           /\ all.params = <<HandleParam(x.moved, x.calling, b.handles)>>

\* ... and of the only parameter of a response.
LEMMA OneTranslated ==
    ASSUME NEW x \in Param, x.handles # <<>>, NEW ps \in Seq(Param), ps = <<x>>,
           NEW p \in Process, NEW q \in Process, p # q, Tables(table, drawn),
           NEW all, all = TranslateParams(ps, p, q)
    PROVE  OneDone(all, x, p, q)
<1>1. PICK f : ParamRun(f, ps, p, q) /\ all = f[Len(ps)]
  BY TranslateParamsEquation
<1>2. PICK st : st = [table |-> table, drawn |-> drawn, params |-> <<>>]
  OBVIOUS
<1>3. st.table = table /\ st.drawn = drawn /\ st.params = <<>>
  BY <1>2
<1>4. all = TranslateParam(st, x, p, q)
  <2>1. Len(ps) = 1 /\ 1 \in 1..Len(ps) /\ ps[1] = x /\ 1 - 1 = 0
    OBVIOUS
  <2>2. f[0] = st /\ f[1] = TranslateParam(f[0], ps[1], p, q)
    BY <1>1, <1>2, <2>1, Zenon DEF ParamRun
  <2>3. QED
    BY <1>1, <2>1, <2>2, Zenon
<1>5. PICK b : b = TranslateHandles(st, x.handles, x.moved, p, q)
  OBVIOUS
<1>6. /\ all.table = b.table /\ all.drawn = b.drawn
      /\ all.params = Append(st.params, HandleParam(x.moved, x.calling, b.handles))
  <2>1. all = [table |-> b.table, drawn |-> b.drawn,
               params |-> Append(st.params, HandleParam(x.moved, x.calling, b.handles))]
    BY <1>4, <1>5, Zenon DEF TranslateParam
  <2>2. QED
    BY <2>1
<1>7. x.handles \in Seq(Nat)
  BY DEF Param
<1>8. Run(Begin(table, drawn), b, x.handles, Len(x.handles), x.moved, p, q)
  BY <1>3, <1>5, <1>7, BeginState, HandlesTranslated
<1>9. PICK u : u = HandleParam(x.moved, x.calling, b.handles)
  OBVIOUS
<1>10. all.params = <<u>>
  BY <1>3, <1>6, <1>9
<1>11. QED
  BY <1>6, <1>8, <1>9, <1>10, Zenon DEF OneDone

-----------------------------------------------------------------------------
(* The handles of a message *)

\* The handles in the parameters of a message, one after the other.
HandlesOf(ps) == FlattenSeq([i \in 1..Len(ps) |-> ps[i].handles])

CallingParam == HandleParam(FALSE, TRUE, <<CurrentProcess>>)

\* The parameters of a request: a buffer or none, the calling process and a list.
Request(ps, y) == ps = <<CallingParam, y>> \/ ps = <<StaticBuffer, CallingParam, y>>

LEMMA ParamsOfRequests ==
    /\ CallingParam \in Param /\ CallingParam.handles = <<CurrentProcess>>
    /\ ~CallingParam.moved /\ CallingParam.calling
    /\ StaticBuffer \in Param /\ StaticBuffer.handles = <<>>
    /\ \A moved, calling \in BOOLEAN : \A hs \in Seq(Nat) :
           /\ HandleParam(moved, calling, hs) \in Param
           /\ HandleParam(moved, calling, hs).moved = moved
           /\ HandleParam(moved, calling, hs).calling = calling
           /\ HandleParam(moved, calling, hs).handles = hs
<1>1. \A moved, calling \in BOOLEAN : \A hs \in Seq(Nat) :
           /\ HandleParam(moved, calling, hs) \in Param
           /\ HandleParam(moved, calling, hs).moved = moved
           /\ HandleParam(moved, calling, hs).calling = calling
           /\ HandleParam(moved, calling, hs).handles = hs
  BY DEF HandleParam, Param
<1>2. PICK u \in Seq(Nat) : u = <<CurrentProcess>>
  <2>1. CurrentProcess \in Nat
    BY Constants
  <2>2. QED
    BY <2>1, ListOne
<1>3. PICK v \in Seq(Nat) : v = <<>>
  BY ListNone
<1>4. CallingParam = HandleParam(FALSE, TRUE, u) /\ StaticBuffer = HandleParam(FALSE, FALSE, v)
  BY <1>2, <1>3, Zenon DEF CallingParam, StaticBuffer
<1>5. /\ CallingParam \in Param /\ CallingParam.handles = u
      /\ CallingParam.moved = FALSE /\ CallingParam.calling = TRUE
  BY <1>1, <1>4
<1>6. StaticBuffer \in Param /\ StaticBuffer.handles = v
  BY <1>1, <1>4
<1>7. QED
  BY <1>1, <1>2, <1>3, <1>5, <1>6, Zenon

\* Flattening what has an empty list in front.
LEMMA HandlesOfTwo ==
    ASSUME NEW x \in Param, NEW y \in Param, NEW ps, ps = <<x, y>> \/ ps = <<StaticBuffer, x, y>>
    PROVE  HandlesOf(ps) = x.handles \o y.handles
<1>1. PICK u \in Seq(Nat) : u = x.handles
  BY DEF Param
<1>2. PICK v \in Seq(Nat) : v = y.handles
  BY DEF Param
<1>3. CASE ps = <<x, y>>
  <2>1. [i \in 1..Len(ps) |-> ps[i].handles] = <<u, v>>
    BY <1>1, <1>2, <1>3
  <2>2. QED
    BY <1>1, <1>2, <2>1, FlattenTwo, Zenon DEF HandlesOf
<1>4. CASE ps = <<StaticBuffer, x, y>>
  <2>1. PICK e \in Seq(Nat) : e = <<>> /\ e = StaticBuffer.handles
    BY ListNone, ParamsOfRequests, Zenon
  <2>2. [i \in 1..Len(ps) |-> ps[i].handles] = <<e, u, v>>
    BY <1>1, <1>2, <1>4, <2>1
  <2>3. FlattenSeq(<<e, u, v>>) = (e \o u) \o v
    BY FlattenThree
  <2>4. e \o u = u
    BY <2>1
  <2>5. QED
    BY <1>1, <1>2, <2>2, <2>3, <2>4, Zenon DEF HandlesOf
<1>5. QED
  BY <1>3, <1>4

LEMMA HandlesOfOne ==
    ASSUME NEW y \in Param
    PROVE  HandlesOf(<<y>>) = y.handles
<1>1. PICK v \in Seq(Nat) : v = y.handles
  BY DEF Param
<1>2. [i \in 1..Len(<<y>>) |-> <<y>>[i].handles] = <<v>>
  BY <1>1
<1>3. QED
  BY <1>1, <1>2, FlattenOne, Zenon DEF HandlesOf

LEMMA HandlesOfNone == HandlesOf(<<>>) = <<>>
<1>1. [i \in 1..Len(<<>>) |-> <<>>[i].handles] = <<>>
  OBVIOUS
<1>2. QED
  BY <1>1, FlattenNone, Zenon DEF HandlesOf

\* What handles name in p's table.
NamesIn(t, p, hs) == [i \in 1..Len(hs) |-> Named(t, p, hs[i])]

\* What p's table says of the message in the buffer b.
NamesOf(t, p, b, reply) == NamesIn(t, p, HandlesOf(Read(b, reply).params))

LEMMA NamesRead ==
    ASSUME NEW t, NEW p, NEW b, NEW reply, NEW command, NEW result, NEW normals, NEW params, NEW size,
           ReadsAs(b, reply, command, result, normals, params, size)
    PROVE  NamesOf(t, p, b, reply) = NamesIn(t, p, HandlesOf(params))
<1>1. PICK m : m = Read(b, reply)
  OBVIOUS
<1>2. m = [command |-> command, result |-> result, normals |-> normals, params |-> params]
  BY <1>1 DEF ReadsAs
<1>3. m.params = params
  BY <1>2
<1>4. QED
  BY <1>1, <1>3, Zenon DEF NamesOf

-----------------------------------------------------------------------------
(* Requests and responses *)

\* A message that can be read from b.
InBuffer(b, reply, command, result, normals, params) ==
    /\ b \in Seq(Nat) /\ Len(b) = BufferWords
    /\ \E size : ReadsAs(b, reply, command, result, normals, params, size)

\* A short message leaves the length of the buffer as it was.
LEMMA ShortDelivered ==
    ASSUME NEW o, NEW b \in Seq(Nat), Len(b) = BufferWords, NEW reply, NEW command,
           NEW result \in Seq(Nat), NEW normals \in Seq(Nat), NEW params, NEW size \in Nat,
           Delivered(o, b, reply, command, result, normals, params, size),
           Len(result) <= 1, Len(normals) <= 2, size <= 7,
           (Len(result) + Len(normals)) + size <= 8
    PROVE  InBuffer(o, reply, command, result, normals, params)
<1>1. PICK r \in Nat : r = Len(result)
  OBVIOUS
<1>2. PICK n \in Nat : n = Len(normals)
  OBVIOUS
<1>3. (r + n) + size <= 8
  BY <1>1, <1>2
<1>4. ((1 + r) + n) + size <= 9
  BY <1>3
<1>5. ((1 + r) + n) + size <= Len(b)
  <2>1. BufferWords \in Nat /\ BufferWords >= 9
    BY Constants
  <2>2. QED
    BY <1>4, <2>1
<1>6. ReadsAs(o, reply, command, result, normals, params, size) /\ Len(o) = Len(b)
  BY <1>1, <1>2, <1>5, Zenon DEF Delivered
<1>7. o \in Seq(Nat)
  BY <1>6 DEF ReadsAs
<1>8. QED
  BY <1>6, <1>7, Zenon DEF InBuffer

\* What a guest wrote is read.
LEMMA GuestMessage ==
    ASSUME NEW command \in Nat, NEW cs \in Seq(Seq(Nat)), AllWhole(cs),
           NEW k \in Nat, k = Len(FlattenSeq(cs)), k <= 7, NEW b \in Seq(Nat), Len(b) = BufferWords
    PROVE  InBuffer(Over(b, Message(command, <<>>, << 7 >>, cs)), FALSE, command, <<>>, << 7 >>, Heads(cs))
<1>1. PICK result \in Seq(Nat) : result = <<>> /\ Len(result) = 0
  BY ListNone
<1>2. PICK normals \in Seq(Nat) : normals = << 7 >> /\ Len(normals) = 1
  <2>1. 7 \in Nat
    OBVIOUS
  <2>2. \E s \in Seq(Nat) : s = << 7 >> /\ Len(s) = 1 /\ s[1] = 7
    BY <2>1, ListOne
  <2>3. QED
    BY <2>2, Zenon
<1>3. HasResult(result, FALSE)
  BY <1>1 DEF HasResult
<1>4. Len(normals) < 64 /\ k < 64
  BY <1>2
<1>5. Delivered(Over(b, Message(command, result, normals, cs)), b, FALSE, command,
                result, normals, Heads(cs), k)
  BY <1>3, <1>4, ReadMessage
<1>6. Len(result) <= 1 /\ Len(normals) <= 2 /\ (Len(result) + Len(normals)) + k <= 8
  BY <1>1, <1>2
<1>7. InBuffer(Over(b, Message(command, result, normals, cs)), FALSE, command, result, normals, Heads(cs))
  BY <1>5, <1>6, ShortDelivered
<1>8. QED
  BY <1>1, <1>2, <1>7, Zenon

\* The words of a static buffer.
LEMMA WordsOfBuffer ==
    \E w \in Seq(Nat) : /\ GuestWords(StaticBuffer) = w /\ Len(w) = 2 /\ Whole(w)
                        /\ ParamAt(w, 1) = StaticBuffer
<1>1. PICK d \in Nat : d = 2^14 + 1 /\ d % 8 = 1
  OBVIOUS
<1>2. PICK w \in Seq(Nat) : w = <<d, 0>> /\ Len(w) = 2 /\ w[1] = d
  <2>1. <<d, 0>> \in Seq(Nat) /\ Len(<<d, 0>>) = 2 /\ <<d, 0>>[1] = d
    OBVIOUS
  <2>2. QED
    BY <2>1, Zenon
<1>3. GuestWords(StaticBuffer) = w
  BY <1>1, <1>2, Zenon DEF GuestWords
<1>4. ~IsHandles(w[1])
  BY <1>1, <1>2 DEF IsHandles
<1>5. ParamSize(w, 1) = 2
  BY <1>4, Zenon DEF ParamSize
<1>6. Whole(w)
  BY <1>2, <1>5 DEF Whole
<1>7. ParamAt(w, 1) = StaticBuffer
  BY <1>4, Zenon DEF ParamAt, StaticBuffer
<1>8. QED
  BY <1>2, <1>3, <1>6, <1>7, Zenon

\* The words of a list of handles.
LEMMA WordsOfList ==
    ASSUME NEW x \in Param, Len(x.handles) \in 1..2
    PROVE  \E w \in Seq(Nat) : /\ GuestWords(x) = w /\ Len(w) = 1 + Len(x.handles) /\ Whole(w)
                               /\ ParamAt(w, 1) = Seen(x)
<1>1. Len(x.handles) >= 1 /\ Len(x.handles) # 0
  OBVIOUS
<1>2. x # StaticBuffer
  <2>1. StaticBuffer.handles = <<>> /\ Len(<<>>) = 0
    BY ParamsOfRequests
  <2>2. QED
    BY <1>1, <2>1
<1>3. GuestWords(x) = TranslateWords(x)
  BY <1>2, Zenon DEF GuestWords
<1>4. /\ TranslateWords(x) \in Seq(Nat) /\ Len(TranslateWords(x)) = 1 + Len(x.handles)
      /\ Whole(TranslateWords(x)) /\ ParamAt(TranslateWords(x), 1) = Seen(x)
  BY <1>1, WordsOfParam
<1>5. QED
  BY <1>3, <1>4, Zenon

LEMMA ParamsTwo ==
    ASSUME NEW x \in Param, NEW y \in Param
    PROVE  \E g \in Seq(Param) : g = <<x, y>> /\ Len(g) = 2 /\ g[1] = x /\ g[2] = y
  BY ListTwo

LEMMA ParamsThree ==
    ASSUME NEW e \in Param, NEW x \in Param, NEW y \in Param
    PROVE  \E g \in Seq(Param) : g = <<e, x, y>> /\ Len(g) = 3 /\ g[1] = e /\ g[2] = x /\ g[3] = y
  BY ListThree

LEMMA BufferInFront ==
    ASSUME NEW x \in Param, NEW y \in Param, NEW given, given = <<StaticBuffer, x, y>>
    PROVE  \E g \in Seq(Param) : g = given /\ Len(g) = 3 /\ g[1] = StaticBuffer /\ g[2] = x /\ g[3] = y
<1>1. PICK e \in Param : e = StaticBuffer
  BY ParamsOfRequests
<1>2. \E g \in Seq(Param) : g = <<e, x, y>> /\ Len(g) = 3 /\ g[1] = e /\ g[2] = x /\ g[3] = y
  BY ParamsThree
<1>3. QED
  BY <1>1, <1>2, Zenon

LEMMA WordsOfTwo ==
    ASSUME NEW g \in Seq(Param), Len(g) = 2
    PROVE  [i \in 1..Len(g) |-> GuestWords(g[i])] = <<GuestWords(g[1]), GuestWords(g[2])>>
  OBVIOUS

LEMMA WordsOfThree ==
    ASSUME NEW g \in Seq(Param), Len(g) = 3
    PROVE  [i \in 1..Len(g) |-> GuestWords(g[i])]
               = <<GuestWords(g[1]), GuestWords(g[2]), GuestWords(g[3])>>
  OBVIOUS

LEMMA ConcatNone ==
    ASSUME NEW x, NEW y
    PROVE  <<>> \o <<x, y>> = <<x, y>>
<1>1. PICK S : S = {x, y}
  OBVIOUS
<1>a. x \in S /\ y \in S
  BY <1>1
<1>2. PICK s \in Seq(S) : s = <<x, y>>
  <2>1. \E s \in Seq(S) : s = <<x, y>> /\ Len(s) = 2 /\ s[1] = x /\ s[2] = y
    BY <1>a, ListTwo
  <2>2. QED
    BY <2>1, Zenon
<1>3. <<>> \o s = s
  OBVIOUS
<1>4. QED
  BY <1>2, <1>3, Zenon

LEMMA ConcatOne ==
    ASSUME NEW e, NEW x, NEW y
    PROVE  <<e>> \o <<x, y>> = <<e, x, y>>
<1>1. PICK S : S = {e, x, y}
  OBVIOUS
<1>2. e \in S /\ x \in S /\ y \in S
  BY <1>1
<1>3. PICK a \in Seq(S) : a = <<e>> /\ Len(a) = 1 /\ a[1] = e
  BY <1>2, ListOne
<1>4. PICK s \in Seq(S) : s = <<x, y>> /\ Len(s) = 2 /\ s[1] = x /\ s[2] = y
  BY <1>2, ListTwo
<1>5. PICK w \in Seq(S) : w = <<e, x, y>> /\ Len(w) = 3 /\ w[1] = e /\ w[2] = x /\ w[3] = y
  BY <1>2, ListThree
<1>6. PICK z \in Seq(S) : z = a \o s
  BY ConcatWords
<1>7. Len(z) = 3 /\ z[1] = e /\ z[2] = x /\ z[3] = y
  BY <1>3, <1>4, <1>6
<1>8. \A i \in 1..3 : i = 1 \/ i = 2 \/ i = 3
  OBVIOUS
<1>9. z = w
  BY <1>5, <1>7, <1>8, SeqEqual, Zenon
<1>10. QED
  BY <1>3, <1>4, <1>5, <1>6, <1>9, Zenon

LEMMA GivenRead ==
    ASSUME NEW command \in Nat, NEW x \in Param, NEW y \in Param, Len(x.handles) = 1,
           Len(y.handles) \in 1..2, Seen(x) = CallingParam, Seen(y) = y,
           NEW b \in Seq(Nat), Len(b) = BufferWords,
           NEW given, given = <<x, y>> \/ given = <<StaticBuffer, x, y>>
    PROVE  \E ps : Request(ps, y) /\ InBuffer(Over(b, GuestRequest(command, << 7 >>, given)), FALSE,
                                              command, <<>>, << 7 >>, ps)
<1>8. PICK u \in Seq(Nat) : /\ GuestWords(x) = u /\ Len(u) = 1 + Len(x.handles) /\ Whole(u)
                            /\ ParamAt(u, 1) = Seen(x)
  <2>1. Len(x.handles) \in 1..2
    OBVIOUS
  <2>2. QED
    BY <2>1, WordsOfList, Zenon
<1>9. PICK v \in Seq(Nat) : /\ GuestWords(y) = v /\ Len(v) = 1 + Len(y.handles) /\ Whole(v)
                            /\ ParamAt(v, 1) = Seen(y)
  BY WordsOfList, Zenon
<1>10. PICK n \in 1..2 : n = Len(y.handles)
  OBVIOUS
<1>11. Len(u) = 2 /\ Len(v) = 1 + n /\ Len(v) \in Nat
  BY <1>8, <1>9, <1>10
<1>12. CASE given = <<x, y>>
  <2>b. PICK g \in Seq(Param) : g = <<x, y>> /\ Len(g) = 2 /\ g[1] = x /\ g[2] = y
    BY ParamsTwo
  <2>2. PICK cs \in Seq(Seq(Nat)) : cs = <<u, v>> /\ Len(cs) = 2 /\ cs[1] = u /\ cs[2] = v
    BY ListTwo
  <2>3. [i \in 1..Len(given) |-> GuestWords(given[i])] = cs
    <3>1. [i \in 1..Len(given) |-> GuestWords(given[i])] = <<GuestWords(x), GuestWords(y)>>
      BY <1>12, <2>b, WordsOfTwo, Zenon
    <3>2. QED
      BY <1>8, <1>9, <2>2, <3>1, Zenon
  <2>4. AllWhole(cs)
    <3>1. \A i \in 1..2 : i = 1 \/ i = 2
      OBVIOUS
    <3>2. QED
      BY <1>8, <1>9, <2>2, <3>1, Zenon DEF AllWhole
  <2>5. Heads(cs) = <<CallingParam, y>>
    <3>1. Heads(cs) = <<ParamAt(u, 1), ParamAt(v, 1)>>
      BY <2>2 DEF Heads
    <3>2. QED
      BY <1>8, <1>9, <3>1, Zenon
  <2>6. PICK k \in Nat : k = Len(FlattenSeq(cs)) /\ k <= 7
    <3>1. FlattenSeq(cs) = u \o v
      BY <2>2, FlattenTwo, Zenon
    <3>2. Len(u \o v) = Len(u) + Len(v)
      BY ConcatWords
    <3>3. 2 + (1 + n) \in Nat /\ 2 + (1 + n) <= 7
      OBVIOUS
    <3>4. QED
      BY <1>11, <3>1, <3>2, <3>3, Zenon
  <2>7. InBuffer(Over(b, Message(command, <<>>, << 7 >>, cs)), FALSE, command, <<>>, << 7 >>, Heads(cs))
    BY <2>4, <2>6, GuestMessage
  <2>8. QED
    BY <2>3, <2>5, <2>7, Zenon DEF Request, GuestRequest
<1>13. CASE given = <<StaticBuffer, x, y>>
  <2>b. PICK g \in Seq(Param) : g = given /\ Len(g) = 3 /\ g[1] = StaticBuffer /\ g[2] = x /\ g[3] = y
    BY <1>13, BufferInFront
  <2>a. PICK w \in Seq(Nat) : /\ GuestWords(StaticBuffer) = w /\ Len(w) = 2 /\ Whole(w)
                              /\ ParamAt(w, 1) = StaticBuffer
    BY WordsOfBuffer, Zenon
  <2>2. PICK cs \in Seq(Seq(Nat)) : cs = <<w, u, v>> /\ Len(cs) = 3 /\ cs[1] = w /\ cs[2] = u /\ cs[3] = v
    <3>1. PICK z0 : z0 = <<w, u, v>>
      OBVIOUS
    <3>2. z0 \in Seq(Seq(Nat)) /\ Len(z0) = 3 /\ z0[1] = w /\ z0[2] = u /\ z0[3] = v
      BY <3>1
    <3>3. QED
      BY <3>1, <3>2, Zenon
  <2>3. [i \in 1..Len(given) |-> GuestWords(given[i])] = cs
    <3>1. [i \in 1..Len(given) |-> GuestWords(given[i])]
            = <<GuestWords(StaticBuffer), GuestWords(x), GuestWords(y)>>
      BY <2>b, WordsOfThree, Zenon
    <3>2. QED
      BY <1>8, <1>9, <2>2, <2>a, <3>1, Zenon
  <2>4. AllWhole(cs)
    <3>1. \A i \in 1..3 : i = 1 \/ i = 2 \/ i = 3
      OBVIOUS
    <3>2. QED
      BY <1>8, <1>9, <2>2, <2>a, <3>1, Zenon DEF AllWhole
  <2>5. Heads(cs) = <<StaticBuffer, CallingParam, y>>
    <3>1. Heads(cs) = <<ParamAt(w, 1), ParamAt(u, 1), ParamAt(v, 1)>>
      BY <2>2 DEF Heads
    <3>2. QED
      BY <1>8, <1>9, <2>a, <3>1, Zenon
  <2>6. PICK k \in Nat : k = Len(FlattenSeq(cs)) /\ k <= 7
    <3>1. FlattenSeq(cs) = (w \o u) \o v
      BY <2>2, FlattenThree, Zenon
    <3>2. Len((w \o u) \o v) = (Len(w) + Len(u)) + Len(v)
      <4>1. w \o u \in Seq(Nat) /\ Len(w \o u) = Len(w) + Len(u)
        BY ConcatWords
      <4>2. PICK a \in Seq(Nat) : a = w \o u
        BY <4>1
      <4>3. Len(a \o v) = Len(a) + Len(v)
        BY ConcatWords
      <4>4. QED
        BY <4>1, <4>2, <4>3, Zenon
    <3>3. (2 + 2) + (1 + n) \in Nat /\ (2 + 2) + (1 + n) <= 7
      OBVIOUS
    <3>4. QED
      BY <1>11, <2>a, <3>1, <3>2, <3>3, Zenon
  <2>7. InBuffer(Over(b, Message(command, <<>>, << 7 >>, cs)), FALSE, command, <<>>, << 7 >>, Heads(cs))
    BY <2>4, <2>6, GuestMessage
  <2>8. QED
    BY <2>3, <2>5, <2>7, Zenon DEF Request, GuestRequest
<1>14. QED
  BY <1>12, <1>13

\* send_sync_request: the service will read the calling process and the list.
LEMMA RequestRead ==
    ASSUME NEW command \in Nat, NEW y \in Param, y.calling = FALSE, Len(y.handles) \in 1..2,
           NEW b \in Seq(Nat), Len(b) = BufferWords,
           NEW front, front = <<StaticBuffer>> \/ front = <<>>,
           NEW given, given = front \o <<HandleParam(FALSE, TRUE, <<NoHandle>>), y>>
    PROVE  \E ps : Request(ps, y) /\ InBuffer(Over(b, GuestRequest(command, << 7 >>, given)), FALSE,
                                              command, <<>>, << 7 >>, ps)
<1>1. PICK z \in Seq(Nat) : z = <<NoHandle>> /\ Len(z) = 1
  <2>1. NoHandle \in Nat
    BY Constants
  <2>2. QED
    BY <2>1, ListOne
<1>2. PICK x : x = HandleParam(FALSE, TRUE, z)
  OBVIOUS
<1>3. x \in Param /\ x.moved = FALSE /\ x.calling = TRUE /\ x.handles = z
  BY <1>2 DEF HandleParam, Param
<1>4. HandleParam(y.moved, FALSE, y.handles) = y
  BY DEF HandleParam, Param
<1>5. given = <<x, y>> \/ given = <<StaticBuffer, x, y>>
  <2>1. given = front \o <<x, y>>
    BY <1>1, <1>2, Zenon
  <2>2. CASE front = <<StaticBuffer>>
    BY <2>1, <2>2, ConcatOne, Zenon
  <2>3. CASE front = <<>>
    BY <2>1, <2>3, ConcatNone, Zenon
  <2>4. QED
    BY <2>2, <2>3
<1>6. Seen(x) = CallingParam
  <2>1. [i \in 1..Len(z) |-> CurrentProcess] = <<CurrentProcess>>
    BY <1>1
  <2>2. QED
    BY <1>3, <2>1, Zenon DEF Seen, CallingParam
<1>7. Seen(y) = y
  BY <1>4, Zenon DEF Seen
<1>8. Len(x.handles) = 1
  BY <1>1, <1>3
<1>9. QED
  BY <1>3, <1>4, <1>5, <1>6, <1>7, <1>8, GivenRead, Zenon


-----------------------------------------------------------------------------
(* What arrives *)

\* The request in p's buffer has become one in q's, by way of b and c: b is what is left
\* of the tables after the calling process, c after the list.
RequestMoves(b, c, command, y, p, q) ==
    /\ Run(Begin(table, drawn), b, <<CurrentProcess>>, 1, FALSE, p, q)
    /\ Run(Begin(b.table, b.drawn), c, y.handles, Len(y.handles), y.moved, p, q)
    /\ table' = c.table /\ drawn' = c.drawn
    /\ \E o : /\ ipcData' = [ipcData EXCEPT ![q] = o]
              /\ InBuffer(o, FALSE, command, <<>>, << 7 >>,
                          <<CallingParam, HandleParam(y.moved, FALSE, c.handles)>>)

Buffers == /\ drawn \in [Process -> Nat] /\ ipcData \in [Process -> Seq(Nat)]
           /\ \A r \in Process : Len(ipcData[r]) = BufferWords

LEMMA ListParam ==
    ASSUME NEW moved \in BOOLEAN, NEW calling \in BOOLEAN, NEW hs \in Seq(Nat)
    PROVE  \E y \in Param : /\ y = HandleParam(moved, calling, hs) /\ y.handles = hs
                             /\ y.moved = moved /\ y.calling = calling
<1>1. PICK y : y = HandleParam(moved, calling, hs)
  OBVIOUS
<1>2. y \in Param /\ y.handles = hs
  BY <1>1 DEF HandleParam, Param
<1>3. y.moved = moved /\ y.calling = calling
  BY <1>1 DEF HandleParam
<1>4. QED
  BY <1>1, <1>2, <1>3, Zenon

LEMMA SameButHandles ==
    ASSUME NEW y \in Param, NEW hs \in Seq(Nat)
    PROVE  \E v \in Param : /\ v = HandleParam(y.moved, FALSE, hs) /\ v.handles = hs
                             /\ v.moved = y.moved /\ v.calling = FALSE
<1>1. PICK v : v = HandleParam(y.moved, FALSE, hs)
  OBVIOUS
<1>2. v \in Param /\ v.handles = hs
  BY <1>1 DEF HandleParam, Param
<1>3. v.moved = y.moved /\ v.calling = FALSE
  BY <1>1 DEF HandleParam
<1>4. QED
  BY <1>1, <1>2, <1>3, Zenon

\* What Run says of the translated handles.
LEMMA RunHandles ==
    ASSUME NEW a, NEW b, NEW hs, NEW n, NEW moved, NEW p, NEW q, Run(a, b, hs, n, moved, p, q)
    PROVE  b.handles \in Seq(Nat) /\ Len(b.handles) = n /\ Tables(b.table, b.drawn)
  BY DEF Run, State, Arrived

LEMMA RequestTranslated ==
    ASSUME NEW p \in Process, NEW q \in Process, p # q, Tables(table, drawn), Buffers,
           TranslateIpc(p, q, FALSE), NEW command \in Nat,
           NEW y \in Param, y.calling = FALSE, Len(y.handles) \in 1..2,
           NEW ps, Request(ps, y),
           InBuffer(ipcData[p], FALSE, command, <<>>, << 7 >>, ps)
    PROVE  \E b, c : RequestMoves(b, c, command, y, p, q)
<1>1. PICK x \in Param : /\ x = CallingParam /\ x.handles = <<CurrentProcess>>
                         /\ x.moved = FALSE /\ x.calling = TRUE
  <2>1. /\ CallingParam \in Param /\ CallingParam.handles = <<CurrentProcess>>
        /\ ~CallingParam.moved /\ CallingParam.calling
    BY ParamsOfRequests
  <2>2. CallingParam.moved = FALSE /\ CallingParam.calling = TRUE
    BY DEF CallingParam, HandleParam
  <2>3. QED
    BY <2>1, <2>2, Zenon
<1>2. PICK hs \in Seq(Nat) : hs = y.handles
  BY DEF Param
<1>b. PICK n \in 1..2 : n = Len(hs)
  BY <1>2
<1>3. x.handles # <<>> /\ y.handles # <<>>
  <2>1. Len(hs) # 0
    BY <1>b
  <2>2. hs # <<>>
    BY <2>1
  <2>3. <<CurrentProcess>> # <<>>
    OBVIOUS
  <2>4. QED
    BY <1>1, <1>2, <2>2, <2>3, Zenon
<1>4. ps \in Seq(Param) /\ (ps = <<x, y>> \/ ps = <<StaticBuffer, x, y>>)
  <2>1. ps = <<x, y>> \/ ps = <<StaticBuffer, x, y>>
    BY <1>1, Zenon DEF Request
  <2>2. CASE ps = <<x, y>>
    BY <2>2, ParamsTwo
  <2>3. CASE ps = <<StaticBuffer, x, y>>
    BY <2>3, BufferInFront
  <2>4. QED
    BY <2>1, <2>2, <2>3
<1>5. PICK all : all = TranslateParams(ps, p, q)
  OBVIOUS
<1>a. TwoDone(all, x, y, p, q)
  BY <1>3, <1>4, <1>5, TwoTranslated
<1>6. PICK b, c :
               /\ Run(Begin(table, drawn), b, x.handles, Len(x.handles), x.moved, p, q)
               /\ Run(Begin(b.table, b.drawn), c, y.handles, Len(y.handles), y.moved, p, q)
               /\ all.table = c.table /\ all.drawn = c.drawn
               /\ all.params = <<HandleParam(x.moved, x.calling, b.handles),
                                 HandleParam(y.moved, y.calling, c.handles)>>
  BY <1>a, Zenon DEF TwoDone
<1>7. Len(<<CurrentProcess>>) = 1
  OBVIOUS
<1>8. /\ Run(Begin(table, drawn), b, <<CurrentProcess>>, 1, FALSE, p, q)
      /\ Run(Begin(b.table, b.drawn), c, hs, Len(hs), y.moved, p, q)
  BY <1>1, <1>2, <1>6, <1>7, Zenon
<1>9. PICK us \in Seq(Nat) : us = b.handles /\ Len(us) = 1
  <2>1. b.handles \in Seq(Nat) /\ Len(b.handles) = 1
    BY <1>8, RunHandles
  <2>2. QED
    BY <2>1, Zenon
<1>10. PICK vs \in Seq(Nat) : vs = c.handles /\ Len(vs) = Len(hs)
  BY <1>8, RunHandles, Zenon
<1>11. PICK u \in Param : /\ u = HandleParam(FALSE, TRUE, us) /\ u.handles = us
                          /\ u.moved = FALSE /\ u.calling = TRUE
  BY ListParam, FALSE \in BOOLEAN, TRUE \in BOOLEAN, Zenon
<1>12. PICK v \in Param : /\ v = HandleParam(y.moved, FALSE, vs) /\ v.handles = vs
                          /\ v.moved = y.moved /\ v.calling = FALSE
  BY SameButHandles, Zenon
<1>13. all.params = <<u, v>>
  BY <1>1, <1>2, <1>6, <1>9, <1>10, <1>11, <1>12, Zenon
<1>14. Seen(u) = CallingParam
  <2>1. [i \in 1..Len(us) |-> CurrentProcess] = <<CurrentProcess>>
    BY <1>9
  <2>2. QED
    BY <1>11, <2>1, Zenon DEF Seen, CallingParam
<1>15. Seen(v) = HandleParam(y.moved, FALSE, c.handles)
  BY <1>10, <1>12, Zenon DEF Seen
<1>16. PICK result \in Seq(Nat) : result = <<>> /\ Len(result) = 0
  BY ListNone
<1>17. PICK normals \in Seq(Nat) : normals = << 7 >> /\ Len(normals) = 1
  <2>1. 7 \in Nat
    OBVIOUS
  <2>2. \E s \in Seq(Nat) : s = << 7 >> /\ Len(s) = 1 /\ s[1] = 7
    BY <2>1, ListOne
  <2>3. QED
    BY <2>2, Zenon
<1>18. Len(normals) < 64 /\ HasResult(result, FALSE)
  BY <1>16, <1>17 DEF HasResult
<1>19. Readable(p, FALSE, command, result, normals, ps)
  BY <1>16, <1>17, <1>18, Zenon DEF Readable, InBuffer
<1>20. Ends(all, q, command, result, normals)
  BY <1>5, <1>19, TranslateRead, Zenon
<1>21. PICK w : w = ipcData[q]
  OBVIOUS
<1>22. w \in Seq(Nat) /\ Len(w) = BufferWords
  BY <1>21 DEF Buffers
<1>c. n \in 1..20 /\ 1 \in 1..20
  OBVIOUS
<1>23. Len(u.handles) \in 1..20 /\ Len(v.handles) \in 1..20
  BY <1>9, <1>10, <1>11, <1>12, <1>b, <1>c, Zenon
<1>24. PICK k \in Nat : k = (1 + Len(u.handles)) + (1 + Len(v.handles)) /\ k <= 7
  <2>1. PICK k \in Nat : k = (1 + 1) + (1 + n) /\ k <= 7
    OBVIOUS
  <2>2. QED
    BY <1>9, <1>10, <1>11, <1>12, <1>b, <2>1, Zenon
<1>25. PICK o : o = Over(w, Written(command, result, normals, <<u, v>>))
  OBVIOUS
<1>26. Delivered(o, w, FALSE, command, result, normals, <<Seen(u), Seen(v)>>, k)
  BY <1>18, <1>22, <1>23, <1>24, <1>25, WrittenTwo, Zenon
<1>27. InBuffer(o, FALSE, command, result, normals, <<Seen(u), Seen(v)>>)
  <2>1. Len(result) <= 1 /\ Len(normals) <= 2 /\ (Len(result) + Len(normals)) + k <= 8
    <3>a. k <= 7
      BY <1>24
    <3>1. 0 <= 1 /\ 1 <= 2 /\ (0 + 1) + k <= 8
      BY <3>a
    <3>2. QED
      BY <1>16, <1>17, <3>1, Zenon
  <2>2. QED
    BY <1>22, <1>24, <1>26, <2>1, ShortDelivered, Zenon
<1>28. /\ table' = c.table /\ drawn' = c.drawn
       /\ ipcData' = [ipcData EXCEPT ![q] = o]
  BY <1>6, <1>13, <1>20, <1>21, <1>25, Zenon DEF Ends
<1>29. QED
  BY <1>2, <1>8, <1>14, <1>15, <1>16, <1>17, <1>27, <1>28, Zenon DEF RequestMoves

\* The response with the list y in p's buffer has become one in q's.
ResponseMoves(b, command, normals, y, p, q) ==
    /\ Run(Begin(table, drawn), b, y.handles, Len(y.handles), y.moved, p, q)
    /\ table' = b.table /\ drawn' = b.drawn
    /\ \E o : /\ ipcData' = [ipcData EXCEPT ![q] = o]
              /\ InBuffer(o, TRUE, command, << 0 >>, normals,
                          <<HandleParam(y.moved, FALSE, b.handles)>>)

LEMMA ResponseTranslated ==
    ASSUME NEW p \in Process, NEW q \in Process, p # q, Tables(table, drawn), Buffers,
           TranslateIpc(p, q, TRUE), NEW command \in Nat, NEW normals \in Seq(Nat), Len(normals) <= 2,
           NEW y \in Param, y.calling = FALSE, Len(y.handles) \in 1..2,
           InBuffer(ipcData[p], TRUE, command, << 0 >>, normals, <<y>>)
    PROVE  \E b : ResponseMoves(b, command, normals, y, p, q)
<1>1. PICK hs \in Seq(Nat) : hs = y.handles
  BY DEF Param
<1>2. PICK n \in 1..2 : n = Len(hs)
  BY <1>1
<1>3. y.handles # <<>>
  <2>1. Len(hs) # 0
    BY <1>2
  <2>2. hs # <<>>
    BY <2>1
  <2>3. QED
    BY <1>1, <2>2, Zenon
<1>4. PICK ps \in Seq(Param) : ps = <<y>>
  BY ListOne
<1>5. PICK all : all = TranslateParams(ps, p, q)
  OBVIOUS
<1>6. OneDone(all, y, p, q)
  BY <1>3, <1>4, <1>5, OneTranslated
<1>7. PICK b : /\ Run(Begin(table, drawn), b, y.handles, Len(y.handles), y.moved, p, q)
               /\ all.table = b.table /\ all.drawn = b.drawn
               /\ all.params = <<HandleParam(y.moved, y.calling, b.handles)>>
  BY <1>6, Zenon DEF OneDone
<1>8. PICK vs \in Seq(Nat) : vs = b.handles /\ Len(vs) = Len(hs)
  BY <1>1, <1>7, RunHandles, Zenon
<1>9. PICK v \in Param : /\ v = HandleParam(y.moved, FALSE, vs) /\ v.handles = vs
                         /\ v.moved = y.moved /\ v.calling = FALSE
  BY SameButHandles, Zenon
<1>10. all.params = <<v>>
  BY <1>7, <1>8, <1>9, Zenon
<1>11. Seen(v) = HandleParam(y.moved, FALSE, b.handles)
  BY <1>8, <1>9, Zenon DEF Seen
<1>12. PICK result \in Seq(Nat) : result = << 0 >> /\ Len(result) = 1
  <2>1. << 0 >> \in Seq(Nat) /\ Len(<< 0 >>) = 1
    OBVIOUS
  <2>2. QED
    BY <2>1, Zenon
<1>13. Len(normals) < 64 /\ HasResult(result, TRUE)
  BY <1>12 DEF HasResult
<1>14. Readable(p, TRUE, command, result, normals, ps)
  BY <1>4, <1>12, <1>13, Zenon DEF Readable, InBuffer
<1>15. Ends(all, q, command, result, normals)
  BY <1>5, <1>14, TranslateRead, Zenon
<1>16. PICK w : w = ipcData[q]
  OBVIOUS
<1>17. w \in Seq(Nat) /\ Len(w) = BufferWords
  BY <1>16 DEF Buffers
<1>18. Len(v.handles) \in 1..60
  <2>1. n \in 1..60
    OBVIOUS
  <2>2. QED
    BY <1>2, <1>8, <1>9, <2>1, Zenon
<1>19. PICK k \in Nat : k = 1 + Len(v.handles) /\ k <= 3
  <2>1. PICK k \in Nat : k = 1 + n /\ k <= 3
    OBVIOUS
  <2>2. QED
    BY <1>2, <1>8, <1>9, <2>1, Zenon
<1>20. PICK o : o = Over(w, Written(command, result, normals, <<v>>))
  OBVIOUS
<1>21. Delivered(o, w, TRUE, command, result, normals, <<Seen(v)>>, k)
  BY <1>13, <1>17, <1>18, <1>19, <1>20, WrittenOne, Zenon
<1>22. InBuffer(o, TRUE, command, result, normals, <<Seen(v)>>)
  <2>1. PICK m \in Nat : m = Len(normals) /\ m <= 2
    OBVIOUS
  <2>2. k <= 3
    BY <1>19
  <2>3. 1 <= 1 /\ k <= 7 /\ (1 + m) + k <= 8
    BY <2>1, <2>2
  <2>4. Len(result) <= 1 /\ Len(normals) <= 2 /\ k <= 7 /\ (Len(result) + Len(normals)) + k <= 8
    BY <1>12, <2>1, <2>3, Zenon
  <2>5. QED
    BY <1>17, <1>21, <2>4, ShortDelivered, Zenon
<1>23. /\ table' = b.table /\ drawn' = b.drawn
       /\ ipcData' = [ipcData EXCEPT ![q] = o]
  BY <1>7, <1>10, <1>15, <1>16, <1>20, Zenon DEF Ends
<1>24. QED
  BY <1>7, <1>11, <1>12, <1>22, <1>23, Zenon DEF ResponseMoves

\* A response without handles.
LEMMA EmptyTranslated ==
    ASSUME NEW p \in Process, NEW q \in Process, Buffers,
           TranslateIpc(p, q, TRUE), NEW command \in Nat, NEW normals \in Seq(Nat), Len(normals) <= 2,
           InBuffer(ipcData[p], TRUE, command, << 0 >>, normals, <<>>)
    PROVE  /\ table' = table /\ drawn' = drawn
           /\ \E o : /\ ipcData' = [ipcData EXCEPT ![q] = o]
                     /\ InBuffer(o, TRUE, command, << 0 >>, normals, <<>>)
<1>1. PICK result \in Seq(Nat) : result = << 0 >> /\ Len(result) = 1
  <2>1. << 0 >> \in Seq(Nat) /\ Len(<< 0 >>) = 1
    OBVIOUS
  <2>2. QED
    BY <2>1, Zenon
<1>2. Len(normals) < 64 /\ HasResult(result, TRUE)
  BY <1>1 DEF HasResult
<1>3. Readable(p, TRUE, command, result, normals, <<>>)
  BY <1>1, <1>2, Zenon DEF Readable, InBuffer
<1>4. IpcTypes
  BY DEF Buffers, IpcTypes
<1>5. /\ table' = table /\ drawn' = drawn
      /\ Delivers(q, TRUE, command, result, normals, <<>>, 0)
  BY <1>3, <1>4, TranslateNone
<1>6. PICK o : /\ ipcData' = [ipcData EXCEPT ![q] = o]
               /\ Delivered(o, ipcData[q], TRUE, command, result, normals, <<>>, 0)
  BY <1>5, Zenon DEF Delivers
<1>7. PICK w : w = ipcData[q]
  OBVIOUS
<1>8. w \in Seq(Nat) /\ Len(w) = BufferWords
  BY <1>7 DEF Buffers
<1>9. InBuffer(o, TRUE, command, result, normals, <<>>)
  <2>1. PICK m \in Nat : m = Len(normals) /\ m <= 2
    OBVIOUS
  <2>2. 1 <= 1 /\ 0 <= 7 /\ (1 + m) + 0 <= 8 /\ 0 \in Nat
    BY <2>1
  <2>3. Len(result) <= 1 /\ Len(normals) <= 2 /\ 0 <= 7 /\ (Len(result) + Len(normals)) + 0 <= 8
    BY <1>1, <2>1, <2>2, Zenon
  <2>4. Delivered(o, w, TRUE, command, result, normals, <<>>, 0)
    BY <1>6, <1>7, Zenon
  <2>5. QED
    BY <1>8, <2>2, <2>3, <2>4, ShortDelivered, Zenon
<1>10. QED
  BY <1>1, <1>5, <1>6, <1>9, Zenon

\* The objects that a list of handles is to arrive as.
Means(e, t, p, y) ==
    /\ Len(e) = Len(y.handles)
    /\ \A i \in 1..Len(y.handles) : e[i] = Meant(t, p, y.moved, y.handles, i)

Expected == Seq(Object \cup {NoObject})

\* ... and those of a request: the calling process is none of them.
Expects(e, t, p, y) ==
    \E f \in Expected : Means(f, t, p, y) /\ e = <<NoObject>> \o f

\* In p's table the handles name what e says.
Match(t, p, hs, e) == Len(e) = Len(hs) /\ \A i \in 1..Len(hs) : Named(t, p, hs[i]) = e[i]

LEMMA MatchIsEqual ==
    ASSUME NEW t, NEW p, NEW hs \in Seq(Nat), NEW e \in Expected, Match(t, p, hs, e)
    PROVE  NamesIn(t, p, hs) = e
<1>1. PICK n \in Nat : n = Len(hs) /\ Len(e) = n
  BY DEF Match
<1>2. \A i \in 1..n : Named(t, p, hs[i]) = e[i]
  BY <1>1, Zenon DEF Match
<1>3. e = [i \in 1..n |-> e[i]]
  BY <1>1 DEF Expected
<1>4. [i \in 1..n |-> Named(t, p, hs[i])] = [i \in 1..n |-> e[i]]
  BY <1>2
<1>5. QED
  BY <1>1, <1>3, <1>4, Zenon DEF NamesIn

\* ... and those of a message that p reads.
LEMMA NamesMatch ==
    ASSUME NEW t, NEW p, NEW b, NEW reply, NEW command, NEW result, NEW normals, NEW params,
           InBuffer(b, reply, command, result, normals, params),
           NEW hs \in Seq(Nat), HandlesOf(params) = hs, NEW e \in Expected, Match(t, p, hs, e)
    PROVE  NamesOf(t, p, b, reply) = e /\ b \in Seq(Nat) /\ Len(b) = BufferWords
<1>1. PICK size : ReadsAs(b, reply, command, result, normals, params, size)
  BY DEF InBuffer
<1>2. NamesOf(t, p, b, reply) = NamesIn(t, p, HandlesOf(params))
  BY <1>1, NamesRead, Zenon
<1>3. NamesIn(t, p, hs) = e
  BY MatchIsEqual, Zenon
<1>4. b \in Seq(Nat) /\ Len(b) = BufferWords
  BY DEF InBuffer
<1>5. QED
  BY <1>2, <1>3, <1>4, Zenon

\* One handle more in front.
LEMMA MatchConcat ==
    ASSUME NEW t, NEW p, NEW k \in Nat, Named(t, p, k) = NoObject,
           NEW hs \in Seq(Nat), NEW f \in Expected, Match(t, p, hs, f)
    PROVE  /\ <<k>> \o hs \in Seq(Nat) /\ <<NoObject>> \o f \in Expected
           /\ Match(t, p, <<k>> \o hs, <<NoObject>> \o f)
<1>1. PICK us \in Seq(Nat) : us = <<k>> /\ Len(us) = 1 /\ us[1] = k
  BY ListOne
<1>2. PICK S : S = Object \cup {NoObject}
  OBVIOUS
<1>3. PICK g \in Seq(S) : g = <<NoObject>> /\ Len(g) = 1 /\ g[1] = NoObject
  <2>1. NoObject \in S
    BY <1>2
  <2>2. QED
    BY <2>1, ListOne
<1>4. f \in Seq(S)
  BY <1>2 DEF Expected
<1>5. PICK n \in Nat : n = Len(hs) /\ Len(f) = n
  BY DEF Match
<1>6. PICK a : a = us \o hs
  OBVIOUS
<1>7. a \in Seq(Nat) /\ Len(a) = 1 + n /\ a[1] = k /\ \A i \in 1..n : a[1 + i] = hs[i]
  BY <1>1, <1>5, <1>6
<1>8. PICK b : b = g \o f
  OBVIOUS
<1>9. b \in Seq(S) /\ Len(b) = 1 + n /\ b[1] = NoObject /\ \A i \in 1..n : b[1 + i] = f[i]
  BY <1>3, <1>4, <1>5, <1>8
<1>10. ASSUME NEW i \in 1..(1 + n) PROVE Named(t, p, a[i]) = b[i]
  <2>1. CASE i = 1
    BY <1>7, <1>9, <2>1, Zenon
  <2>2. CASE i # 1
    <3>1. PICK j \in 1..n : i = 1 + j
      <4>1. i - 1 \in 1..n /\ i = 1 + (i - 1)
        BY <2>2
      <4>2. QED
        BY <4>1, Zenon
    <3>2. a[i] = hs[j] /\ b[i] = f[j]
      BY <1>7, <1>9, <3>1, Zenon
    <3>3. Named(t, p, hs[j]) = f[j]
      BY <1>5, Zenon DEF Match
    <3>4. QED
      BY <3>2, <3>3, Zenon
  <2>3. QED
    BY <2>1, <2>2
<1>11. Match(t, p, a, b)
  BY <1>7, <1>9, <1>10, Zenon DEF Match
<1>12. QED
  BY <1>1, <1>2, <1>3, <1>6, <1>7, <1>8, <1>9, <1>11, Zenon DEF Expected

\* What has been translated names what was meant.
LEMMA RunMatch ==
    ASSUME NEW a, NEW b, NEW y, NEW p, NEW q, NEW f,
           Run(a, b, y.handles, Len(y.handles), y.moved, p, q), Means(f, a.table, p, y)
    PROVE  Match(b.table, q, b.handles, f)
<1>1. /\ Len(b.handles) = Len(y.handles)
      /\ \A i \in 1..Len(y.handles) :
             Named(b.table, q, b.handles[i]) = Meant(a.table, p, y.moved, y.handles, i)
  BY DEF Run, Arrived
<1>2. QED
  BY <1>1, Zenon DEF Means, Match

\* The same handles are meant when p's table is the same.
LEMMA MeansSame ==
    ASSUME NEW t, NEW T, NEW p, NEW y, NEW f, Means(f, t, p, y), \A x : Named(T, p, x) = Named(t, p, x)
    PROVE  Means(f, T, p, y)
<1>1. \A i : Meant(T, p, y.moved, y.handles, i) = Meant(t, p, y.moved, y.handles, i)
  BY Zenon DEF Meant
<1>2. QED
  BY <1>1, Zenon DEF Means

\* The message in the buffer b is to p what e says.
ReadBy(t, p, b, reply, e) == NamesOf(t, p, b, reply) = e

\* q has a message that is to it what e says.
Lands(q, reply, e) ==
    \E o \in Seq(Nat) : /\ ipcData' = [ipcData EXCEPT ![q] = o] /\ Len(o) = BufferWords
                        /\ ReadBy(table', q, o, reply, e)

\* What the tables are when a request has been received.
LEMMA RequestTables ==
    ASSUME NEW p \in Process, NEW q \in Process, p # q, Tables(table, drawn), NEW y \in Param,
           Len(y.handles) \in 1..2, NEW command, NEW b, NEW c, RequestMoves(b, c, command, y, p, q)
    PROVE  Tables(table', drawn') /\ Draws(table, drawn, table', drawn', 3, p, q)
<1>1. Run(Begin(table, drawn), b, <<CurrentProcess>>, 1, FALSE, p, q)
  BY DEF RequestMoves
<1>2. Run(Begin(b.table, b.drawn), c, y.handles, Len(y.handles), y.moved, p, q)
  BY DEF RequestMoves
<1>3. table' = c.table /\ drawn' = c.drawn
  BY DEF RequestMoves
<1>4. Draws(table, drawn, b.table, b.drawn, 1, p, q)
  BY <1>1, BeginState DEF Run
<1>5. Tables(b.table, b.drawn)
  BY <1>1, RunHandles, Zenon
<1>6. Draws(b.table, b.drawn, c.table, c.drawn, Len(y.handles), p, q)
  BY <1>2, <1>5, BeginState DEF Run
<1>7. Tables(c.table, c.drawn)
  BY <1>2, RunHandles, Zenon
<1>8. PICK n \in 1..2 : n = Len(y.handles)
  OBVIOUS
<1>9. PICK i \in Nat : i = drawn[q]
  BY DEF Tables
<1>10. PICK j \in Nat : j = b.drawn[q]
  BY <1>5 DEF Tables
<1>11. PICK k \in Nat : k = c.drawn[q]
  BY <1>7 DEF Tables
<1>12. i <= j /\ j <= i + 1 /\ j <= k /\ k <= j + n
  BY <1>4, <1>6, <1>8, <1>9, <1>10, <1>11, Zenon DEF Draws
<1>13. i <= k /\ k <= i + 3
  BY <1>12
<1>14. Draws(table, drawn, c.table, c.drawn, 3, p, q)
  BY <1>4, <1>6, <1>9, <1>11, <1>13, Zenon DEF Draws
<1>15. QED
  BY <1>3, <1>7, <1>14, Zenon

\* The handles of a request arrive.
LEMMA RequestArrives ==
    ASSUME NEW p \in Process, NEW q \in Process, p # q, Tables(table, drawn), NEW y \in Param,
           Len(y.handles) \in 1..2, NEW command, NEW b, NEW c, RequestMoves(b, c, command, y, p, q),
           NEW e, Expects(e, table, p, y), drawn'[q] < CurrentProcess
    PROVE  Lands(q, FALSE, e)
<1>1. Run(Begin(table, drawn), b, <<CurrentProcess>>, 1, FALSE, p, q)
  BY DEF RequestMoves
<1>2. Run(Begin(b.table, b.drawn), c, y.handles, Len(y.handles), y.moved, p, q)
  BY DEF RequestMoves
<1>3. PICK o : /\ ipcData' = [ipcData EXCEPT ![q] = o]
               /\ InBuffer(o, FALSE, command, <<>>, << 7 >>,
                           <<CallingParam, HandleParam(y.moved, FALSE, c.handles)>>)
  BY DEF RequestMoves
<1>4. table' = c.table /\ drawn' = c.drawn
  BY DEF RequestMoves
<1>5. Tables(b.table, b.drawn) /\ Tables(c.table, c.drawn)
  BY <1>1, <1>2, RunHandles, Zenon
<1>6. PICK f \in Expected : Means(f, table, p, y) /\ e = <<NoObject>> \o f
  BY Zenon DEF Expects
<1>7. \A x : Named(b.table, p, x) = Named(table, p, x)
  <2>1. \A x : Named(b.table, p, x) = Left(table, p, FALSE, <<CurrentProcess>>, 1, x)
    BY <1>1, BeginState DEF Run, Arrived
  <2>2. QED
    BY <2>1, Zenon DEF Left
<1>8. Means(f, b.table, p, y)
  BY <1>6, <1>7, MeansSame, Zenon
<1>9. Match(c.table, q, c.handles, f)
  <2>1. PICK a : a = Begin(b.table, b.drawn)
    OBVIOUS
  <2>2. a.table = b.table
    BY <1>5, <2>1, BeginState
  <2>3. QED
    BY <1>2, <1>8, <2>1, <2>2, RunMatch
<1>10. Named(c.table, q, CurrentProcess) = NoObject
  <2>1. PICK d \in Nat : d = c.drawn[q]
    BY <1>5 DEF Tables
  <2>2. ~(CurrentProcess <= d)
    <3>1. CurrentProcess \in Nat /\ d < CurrentProcess
      BY <1>4, <2>1, Constants
    <3>2. QED
      BY <3>1
  <2>3. QED
    BY <1>5, <2>1, <2>2, NamedDrawn, Zenon
<1>11. PICK vs \in Seq(Nat) : vs = c.handles
  BY <1>2, RunHandles, Zenon
<1>12. PICK x \in Param : x = CallingParam /\ x.handles = <<CurrentProcess>>
  BY ParamsOfRequests
<1>13. PICK v \in Param : v = HandleParam(y.moved, FALSE, vs) /\ v.handles = vs
  BY SameButHandles, Zenon
<1>14. PICK hs : hs = <<CurrentProcess>> \o vs
  OBVIOUS
<1>15. PICK ps : ps = <<x, v>>
  OBVIOUS
<1>16. HandlesOf(ps) = hs
  <2>1. HandlesOf(ps) = x.handles \o v.handles
    BY <1>15, HandlesOfTwo, Zenon
  <2>2. QED
    BY <1>12, <1>13, <1>14, <2>1, Zenon
<1>17. PICK g : g = <<NoObject>> \o f
  OBVIOUS
<1>18. hs \in Seq(Nat) /\ g \in Expected /\ Match(c.table, q, hs, g)
  <2>1. CurrentProcess \in Nat
    BY Constants
  <2>2. Match(c.table, q, vs, f)
    BY <1>9, <1>11, Zenon
  <2>3. QED
    BY <1>10, <1>14, <1>17, <2>1, <2>2, MatchConcat, Zenon
<1>19. InBuffer(o, FALSE, command, <<>>, << 7 >>, ps)
  BY <1>3, <1>11, <1>12, <1>13, <1>15, Zenon
<1>20. NamesOf(c.table, q, o, FALSE) = g /\ o \in Seq(Nat) /\ Len(o) = BufferWords
  BY <1>16, <1>18, <1>19, NamesMatch, Zenon
<1>21. QED
  BY <1>3, <1>4, <1>6, <1>17, <1>20, Zenon DEF Lands, ReadBy

\* The handles of a response arrive.
LEMMA ResponseArrives ==
    ASSUME NEW p \in Process, NEW q \in Process, p # q, Tables(table, drawn), NEW y \in Param,
           NEW command, NEW normals, NEW b, ResponseMoves(b, command, normals, y, p, q),
           NEW e \in Expected, Means(e, table, p, y)
    PROVE  /\ Tables(table', drawn') /\ Draws(table, drawn, table', drawn', Len(y.handles), p, q)
           /\ Lands(q, TRUE, e)
<1>1. Run(Begin(table, drawn), b, y.handles, Len(y.handles), y.moved, p, q)
  BY DEF ResponseMoves
<1>2. table' = b.table /\ drawn' = b.drawn
  BY DEF ResponseMoves
<1>3. PICK o : /\ ipcData' = [ipcData EXCEPT ![q] = o]
               /\ InBuffer(o, TRUE, command, << 0 >>, normals,
                           <<HandleParam(y.moved, FALSE, b.handles)>>)
  BY DEF ResponseMoves
<1>4. Draws(table, drawn, b.table, b.drawn, Len(y.handles), p, q)
  BY <1>1, BeginState DEF Run
<1>5. Tables(b.table, b.drawn)
  BY <1>1, RunHandles, Zenon
<1>6. Match(b.table, q, b.handles, e)
  <2>1. PICK a : a = Begin(table, drawn)
    OBVIOUS
  <2>2. a.table = table
    BY <2>1, BeginState
  <2>3. QED
    BY <1>1, <2>1, <2>2, RunMatch
<1>7. PICK vs \in Seq(Nat) : vs = b.handles
  BY <1>1, RunHandles, Zenon
<1>8. PICK v \in Param : v = HandleParam(y.moved, FALSE, vs) /\ v.handles = vs
  BY SameButHandles, Zenon
<1>9. HandlesOf(<<v>>) = vs
  BY <1>8, HandlesOfOne, Zenon
<1>10. Match(b.table, q, vs, e)
  BY <1>6, <1>7, Zenon
<1>11. PICK ps : ps = <<v>>
  OBVIOUS
<1>12. InBuffer(o, TRUE, command, << 0 >>, normals, ps)
  BY <1>3, <1>7, <1>8, <1>11, Zenon
<1>13. HandlesOf(ps) = vs
  BY <1>9, <1>11, Zenon
<1>14. NamesOf(b.table, q, o, TRUE) = e /\ o \in Seq(Nat) /\ Len(o) = BufferWords
  BY <1>10, <1>12, <1>13, NamesMatch, Zenon
<1>15. QED
  BY <1>2, <1>3, <1>4, <1>5, <1>14, Zenon DEF Lands, ReadBy

-----------------------------------------------------------------------------
(* The inductive invariant *)

\* p has asked for what e says with the request in the buffer b.
AskedOf(t, p, b, e) ==
    \E y \in Param, command \in Nat :
        /\ y.calling = FALSE /\ Len(y.handles) \in 1..2 /\ Expects(e, t, p, y)
        /\ \E ps : Request(ps, y) /\ InBuffer(b, FALSE, command, <<>>, << 7 >>, ps)

\* A response without handles, or with one list of handles that are moved.
EmptyAnswer(b, e) ==
    \E command \in Nat, normals \in Seq(Nat) :
        /\ Len(normals) <= 2 /\ e = <<>>
        /\ InBuffer(b, TRUE, command, << 0 >>, normals, <<>>)

\* n handles from k on, to be moved.
MovedHandles(k, n) == HandleParam(TRUE, FALSE, [i \in 1..n |-> k + i])

\* One or two handles that are moved.
MovedList(y) == y.moved = TRUE /\ y.calling = FALSE /\ Len(y.handles) \in 1..2

ListAnswer(t, b, e) ==
    \E y \in Param, command \in Nat, normals \in Seq(Nat) :
        /\ MovedList(y) /\ Len(normals) <= 2
        /\ InBuffer(b, TRUE, command, << 0 >>, normals, <<y>>)
        /\ e \in Expected /\ Means(e, t, Service, y)

\* The service has answered in the buffer b with what e says.
HandledOf(t, b, e) == EmptyAnswer(b, e) \/ ListAnswer(t, b, e)

\* How far the call of c is, and what the message in flight carries.
CallOK(c) ==
    /\ phase[c] = "asking" => calls[c] >= 1 /\ AskedOf(table, c, ipcData[c], expected[c])
    /\ phase[c] \in {"received", "handled"} => serving = c
    /\ phase[c] = "received" => ReadBy(table, Service, ipcData[Service], FALSE, expected[c])
    /\ phase[c] = "handled" => HandledOf(table, ipcData[Service], expected[c])
    /\ phase[c] = "answered" => ReadBy(table, c, ipcData[c], TRUE, expected[c])

\* The calls that the service has received.
Taken(c) == IF phase[c] = "asking" THEN calls[c] - 1 ELSE calls[c]
CallsReceived == {x \in Client \X (1..MaxCalls) : x[2] <= Taken(x[1])}

\* The service's table draws a handle for each object made and three for each call.
ServiceDraws == drawn[Service] <= made + 3 * Cardinality(CallsReceived)

Types ==
    /\ Tables(table, drawn) /\ Buffers
    /\ made \in 0..MaxObjects
    /\ phase \in [Client -> Phase]
    /\ calls \in [Client -> 0..MaxCalls]
    /\ serving \in Client \cup {NoClient}
    /\ expected \in [Client -> Expected]

Inv == Types /\ (\A c \in Client : CallOK(c)) /\ ServiceDraws

LEMMA NamedSame ==
    ASSUME NEW t, NEW T, NEW p, T[p] = t[p]
    PROVE  \A x : Named(T, p, x) = Named(t, p, x)
  BY Zenon DEF Named

LEMMA ReadSame ==
    ASSUME NEW t, NEW T, NEW p, T[p] = t[p], NEW b, NEW reply, NEW e, ReadBy(t, p, b, reply, e)
    PROVE  ReadBy(T, p, b, reply, e)
<1>1. \A x : Named(T, p, x) = Named(t, p, x)
  BY NamedSame
<1>2. ASSUME NEW hs PROVE NamesIn(T, p, hs) = NamesIn(t, p, hs)
  BY <1>1 DEF NamesIn
<1>3. QED
  BY <1>2, Zenon DEF NamesOf, ReadBy

LEMMA AskedSame ==
    ASSUME NEW t, NEW T, NEW p, T[p] = t[p], NEW b, NEW e, AskedOf(t, p, b, e)
    PROVE  AskedOf(T, p, b, e)
<1>1. \A x : Named(T, p, x) = Named(t, p, x)
  BY NamedSame
<1>2. \A y, f : Means(f, t, p, y) => Means(f, T, p, y)
  BY <1>1, MeansSame, Zenon
<1>3. \A y : Expects(e, t, p, y) => Expects(e, T, p, y)
  BY <1>2, Zenon DEF Expects
<1>4. QED
  BY <1>3, Zenon DEF AskedOf

LEMMA HandledSame ==
    ASSUME NEW t, NEW T, T[Service] = t[Service], NEW b, NEW e, HandledOf(t, b, e)
    PROVE  HandledOf(T, b, e)
<1>1. \A x : Named(T, Service, x) = Named(t, Service, x)
  BY NamedSame
<1>2. \A y, f : Means(f, t, Service, y) => Means(f, T, Service, y)
  BY <1>1, MeansSame, Zenon
<1>3. ListAnswer(t, b, e) => ListAnswer(T, b, e)
  BY <1>2, Zenon DEF ListAnswer
<1>4. QED
  BY <1>3, Zenon DEF HandledOf

\* A call that a step does not touch.
LEMMA OtherCall ==
    ASSUME NEW d \in Client, CallOK(d),
           phase'[d] = phase[d], calls'[d] = calls[d], expected'[d] = expected[d],
           table'[d] = table[d], ipcData'[d] = ipcData[d],
           phase[d] \in {"received", "handled"} =>
               /\ serving' = serving /\ table'[Service] = table[Service]
               /\ ipcData'[Service] = ipcData[Service]
    PROVE  CallOK(d)'
<1>1. CASE phase[d] = "asking"
  <2>1. calls[d] >= 1 /\ AskedOf(table, d, ipcData[d], expected[d])
    BY <1>1 DEF CallOK
  <2>2. AskedOf(table', d, ipcData'[d], expected'[d])
    BY <2>1, AskedSame, Zenon
  <2>3. QED
    BY <1>1, <2>1, <2>2 DEF CallOK
<1>2. CASE phase[d] = "received"
  <2>1. serving = d /\ ReadBy(table, Service, ipcData[Service], FALSE, expected[d])
    BY <1>2 DEF CallOK
  <2>2. ReadBy(table', Service, ipcData'[Service], FALSE, expected'[d])
    <3>1. table'[Service] = table[Service] /\ ipcData'[Service] = ipcData[Service]
      BY <1>2
    <3>2. QED
      BY <2>1, <3>1, ReadSame, Zenon
  <2>3. QED
    BY <1>2, <2>1, <2>2 DEF CallOK
<1>3. CASE phase[d] = "handled"
  <2>1. serving = d /\ HandledOf(table, ipcData[Service], expected[d])
    BY <1>3 DEF CallOK
  <2>2. HandledOf(table', ipcData'[Service], expected'[d])
    <3>1. table'[Service] = table[Service] /\ ipcData'[Service] = ipcData[Service]
      BY <1>3
    <3>2. QED
      BY <2>1, <3>1, HandledSame, Zenon
  <2>3. QED
    BY <1>3, <2>1, <2>2 DEF CallOK
<1>4. CASE phase[d] = "answered"
  <2>1. ReadBy(table, d, ipcData[d], TRUE, expected[d])
    BY <1>4 DEF CallOK
  <2>2. ReadBy(table', d, ipcData'[d], TRUE, expected'[d])
    BY <2>1, ReadSame, Zenon
  <2>3. QED
    BY <1>4, <2>2 DEF CallOK
<1>5. CASE phase[d] \notin {"asking", "received", "handled", "answered"}
  BY <1>5 DEF CallOK
<1>6. QED
  BY <1>1, <1>2, <1>3, <1>4, <1>5

-----------------------------------------------------------------------------
(* The service's table does not reach the pseudo-handle *)

LEMMA CallsBound ==
    ASSUME NEW S, S \subseteq Client \X (1..MaxCalls), NEW m \in Nat, m <= MaxObjects,
           NEW d \in Nat, d <= m + 3 * Cardinality(S)
    PROVE  d < CurrentProcess
<1>1. IsFiniteSet(Client) /\ MaxObjects \in Nat /\ MaxCalls \in Nat /\ CurrentProcess \in Nat
  BY Constants
<1>2. IsFiniteSet(1..MaxCalls) /\ Cardinality(1..MaxCalls) = MaxCalls
  <2>1. 1 \in Int /\ MaxCalls \in Int
    BY <1>1
  <2>2. IsFiniteSet(1..MaxCalls)
    BY <2>1, FS_Interval
  <2>3. Cardinality(1..MaxCalls) = IF 1 > MaxCalls THEN 0 ELSE MaxCalls - 1 + 1
    BY <2>1, FS_Interval
  <2>4. QED
    BY <1>1, <2>2, <2>3
<1>3. PICK C : C = Client \X (1..MaxCalls)
  OBVIOUS
<1>4. IsFiniteSet(C) /\ Cardinality(C) = Cardinality(Client) * MaxCalls
  BY <1>1, <1>2, <1>3, FS_Product
<1>5. S \subseteq C
  BY <1>3
<1>6. Cardinality(S) <= Cardinality(C) /\ IsFiniteSet(S)
  BY <1>4, <1>5, FS_Subset
<1>7. PICK s \in Nat : s = Cardinality(S)
  BY <1>6, FS_CardinalityType
<1>8. PICK k \in Nat : k = Cardinality(Client)
  BY <1>1, FS_CardinalityType
<1>9. PICK x \in Nat : x = MaxCalls * k
  BY <1>1
<1>10. s <= x
  <2>1. k * MaxCalls = x
    BY <1>1, <1>9
  <2>2. QED
    BY <1>4, <1>6, <1>7, <1>8, <2>1
<1>11. MaxObjects + 3 * x < CurrentProcess
  BY <1>8, <1>9, TransferAssumption
<1>12. d <= m + 3 * s
  BY <1>7
<1>13. QED
  BY <1>1, <1>10, <1>11, <1>12

LEMMA CallsFinite ==
    ASSUME NEW S, S \subseteq Client \X (1..MaxCalls)
    PROVE  IsFiniteSet(S) /\ Cardinality(S) \in Nat
<1>1. IsFiniteSet(Client) /\ MaxCalls \in Int /\ 1 \in Int
  BY Constants
<1>2. IsFiniteSet(1..MaxCalls)
  BY <1>1, FS_Interval
<1>3. IsFiniteSet(Client \X (1..MaxCalls))
  BY <1>1, <1>2, FS_Product
<1>4. QED
  BY <1>3, FS_Subset, FS_CardinalityType

\* No call is received.
LEMMA NothingReceived ==
    ASSUME ServiceDraws, drawn[Service] \in Nat, made \in Nat, NEW n \in Nat, made' = made + n,
           drawn'[Service] \in Nat, drawn'[Service] <= drawn[Service] + n,
           \A c \in Client : Taken(c)' = Taken(c)
    PROVE  ServiceDraws'
<1>1. CallsReceived' = CallsReceived
  BY DEF CallsReceived
<1>2. PICK s \in Nat : s = Cardinality(CallsReceived)
  BY CallsFinite DEF CallsReceived
<1>3. drawn[Service] <= made + 3 * s
  BY <1>2 DEF ServiceDraws
<1>4. drawn[Service] + n <= (made + n) + 3 * s
  BY <1>3
<1>5. drawn'[Service] <= made' + 3 * s
  BY <1>4
<1>6. QED
  BY <1>1, <1>2, <1>5, Zenon DEF ServiceDraws

\* One call is received.
LEMMA OneReceived ==
    ASSUME ServiceDraws, drawn[Service] \in Nat, made \in Nat, made' = made,
           drawn'[Service] \in Nat, drawn'[Service] <= drawn[Service] + 3,
           calls \in [Client -> 0..MaxCalls], NEW c \in Client, calls' = calls, calls[c] >= 1,
           phase[c] = "asking", phase'[c] # "asking",
           \A d \in Client \ {c} : phase'[d] = phase[d]
    PROVE  ServiceDraws' /\ drawn'[Service] <= made + 3 * Cardinality(CallsReceived')
<1>1. PICK k \in 1..MaxCalls : k = calls[c]
  BY Constants
<1>2. PICK x : x = <<c, k>>
  OBVIOUS
<1>3. x \in Client \X (1..MaxCalls) /\ x[1] = c /\ x[2] = k
  BY <1>1, <1>2
<1>4. Taken(c) = k - 1 /\ Taken(c)' = k
  BY <1>1 DEF Taken
<1>5. \A d \in Client \ {c} : Taken(d)' = Taken(d)
  BY DEF Taken
<1>6. CallsReceived' = CallsReceived \cup {x}
  <2>1. ASSUME NEW y \in Client \X (1..MaxCalls)
        PROVE  y[2] <= Taken(y[1])' <=> y[2] <= Taken(y[1]) \/ y = x
    <3>1. PICK d \in Client, n \in 1..MaxCalls : y = <<d, n>>
      OBVIOUS
    <3>2. y[1] = d /\ y[2] = n
      BY <3>1
    <3>3. CASE d # c
      <4>1. Taken(d)' = Taken(d)
        BY <1>5, <3>3
      <4>2. y # x
        BY <1>2, <3>1, <3>3
      <4>3. QED
        BY <3>2, <4>1, <4>2
    <3>4. CASE d = c
      <4>1. n <= k <=> n <= k - 1 \/ n = k
        BY <1>1
      <4>2. y = x <=> n = k
        BY <1>2, <3>1, <3>4
      <4>3. Taken(y[1]) = k - 1 /\ Taken(y[1])' = k
        BY <1>4, <3>2, <3>4
      <4>4. QED
        BY <3>2, <4>1, <4>2, <4>3
    <3>5. QED
      BY <3>3, <3>4
  <2>2. QED
    BY <1>3, <2>1 DEF CallsReceived
<1>7. x \notin CallsReceived
  <2>1. ~(k <= k - 1)
    BY <1>1
  <2>2. QED
    BY <1>3, <1>4, <2>1 DEF CallsReceived
<1>8. PICK S : S = CallsReceived
  OBVIOUS
<1>9. IsFiniteSet(S) /\ Cardinality(S) \in Nat
  BY <1>8, CallsFinite DEF CallsReceived
<1>10. Cardinality(S \cup {x}) = Cardinality(S) + 1
  BY <1>7, <1>8, <1>9, FS_AddElement
<1>11. PICK s \in Nat : s = Cardinality(S)
  BY <1>9
<1>12. drawn[Service] <= made + 3 * s
  BY <1>8, <1>11 DEF ServiceDraws
<1>13. drawn'[Service] <= made + 3 * (s + 1)
  BY <1>12
<1>14. Cardinality(CallsReceived') = s + 1
  BY <1>6, <1>8, <1>10, <1>11
<1>15. QED
  BY <1>13, <1>14, Zenon DEF ServiceDraws

-----------------------------------------------------------------------------
(* The clients' steps *)

LEMMA IdleCall == ASSUME NEW c \in Client, phase[c] = "idle" PROVE CallOK(c)
  BY DEF CallOK

LEMMA TypesOfClient ==
    ASSUME Types, NEW c \in Client
    PROVE  /\ c \in Process /\ Service \in Process /\ c # Service /\ Tables(table, drawn)
           /\ phase \in [Client -> Phase] /\ phase[c] \in Phase
           /\ calls \in [Client -> 0..MaxCalls] /\ calls[c] \in Nat
           /\ made \in Nat /\ made <= MaxObjects /\ drawn[Service] \in Nat
           /\ expected[c] \in Expected /\ ipcData[c] \in Seq(Nat) /\ Len(ipcData[c]) = BufferWords
           /\ ipcData[Service] \in Seq(Nat) /\ Len(ipcData[Service]) = BufferWords
<1>1. Tables(table, drawn) /\ Buffers
  BY DEF Types
<1>2. c \in Process /\ Service \in Process /\ c # Service
  BY Constants
<1>3. drawn[Service] \in Nat /\ ipcData[c] \in Seq(Nat) /\ ipcData[Service] \in Seq(Nat)
  BY <1>1, <1>2 DEF Buffers
<1>4. Len(ipcData[c]) = BufferWords /\ Len(ipcData[Service]) = BufferWords
  BY <1>1, <1>2 DEF Buffers
<1>5. made \in Nat /\ made <= MaxObjects
  BY Constants DEF Types
<1>6. phase \in [Client -> Phase] /\ phase[c] \in Phase /\ expected[c] \in Expected
  BY DEF Types
<1>7. calls \in [Client -> 0..MaxCalls] /\ calls[c] \in Nat
  BY Constants DEF Types
<1>8. QED
  BY <1>1, <1>2, <1>3, <1>4, <1>5, <1>6, <1>7

LEMMA InitInv == Init => Inv
<1> SUFFICES ASSUME Init PROVE Inv
  OBVIOUS
<1>1. Tables(table, drawn)
  <2>1. drawn \in [Process -> Nat] /\ table = [p \in Process |-> table[p]]
    BY DEF Init
  <2>2. \A p \in Process : table[p] = <<>> /\ DOMAIN table[p] = {}
    BY DEF Init
  <2>3. ASSUME NEW p \in Process PROVE HandleTable(table[p], drawn[p])
    <3>1. <<>> = [h \in {} |-> <<>>[h]]
      OBVIOUS
    <3>2. table[p] = [h \in DOMAIN table[p] |-> table[p][h]]
      BY <2>2, <3>1
    <3>3. QED
      BY <2>2, <3>2 DEF HandleTable
  <2>4. ASSUME NEW o \in Object PROVE IsFiniteSet(Refs(table, o))
    <3>1. ASSUME NEW x \in Refs(table, o) PROVE FALSE
      <4>1. PICK p \in Process : \E h : x = <<p, h>>
        BY RefsMember
      <4>2. PICK h : x = <<p, h>>
        BY <4>1
      <4>3. <<p, h>> \in Refs(table, o)
        BY <4>2
      <4>4. h \in DOMAIN table[p]
        BY <4>3, RefsMember
      <4>5. QED
        BY <2>2, <4>4
    <3>2. Refs(table, o) = {}
      BY <3>1
    <3>3. QED
      BY <3>2, FS_EmptySet
  <2>5. QED
    BY <2>1, <2>3, <2>4 DEF Tables
<1>2. Buffers
  <2>1. drawn \in [Process -> Nat]
    BY DEF Init
  <2>2. PICK w : w = [i \in 1..BufferWords |-> 0]
    OBVIOUS
  <2>3. w \in Seq(Nat) /\ Len(w) = BufferWords
    BY <2>2, Constants
  <2>4. ipcData = [p \in Process |-> w]
    BY <2>2, Zenon DEF Init
  <2>5. QED
    BY <2>1, <2>3, <2>4 DEF Buffers
<1>3. made \in 0..MaxObjects /\ made \in Nat
  BY Constants DEF Init
<1>4. phase \in [Client -> Phase] /\ \A c \in Client : phase[c] = "idle"
  BY DEF Init, Phase
<1>5. calls \in [Client -> 0..MaxCalls]
  BY Constants DEF Init
<1>6. serving \in Client \cup {NoClient}
  BY DEF Init
<1>7. expected \in [Client -> Expected]
  BY DEF Init, Expected
<1>8. Types
  BY <1>1, <1>2, <1>3, <1>4, <1>5, <1>6, <1>7, Zenon DEF Types
<1>9. \A c \in Client : CallOK(c)
  BY <1>4, IdleCall
<1>10. ServiceDraws
  <2>1. drawn[Service] = 0 /\ made = 0
    BY Constants DEF Init
  <2>2. PICK s \in Nat : s = Cardinality(CallsReceived)
    BY CallsFinite DEF CallsReceived
  <2>3. 0 <= 0 + 3 * s
    OBVIOUS
  <2>4. QED
    BY <2>1, <2>2, <2>3, Zenon DEF ServiceDraws
<1>11. QED
  BY <1>8, <1>9, <1>10 DEF Inv

LEMMA Created ==
    ASSUME Inv, NEW c \in Client, CreateObject(c)
    PROVE  Inv'
<1>1. Types /\ ServiceDraws /\ \A d \in Client : CallOK(d)
  BY DEF Inv
<1>2. /\ c \in Process /\ c # Service /\ Service \in Process /\ made \in Nat /\ drawn[Service] \in Nat
      /\ Tables(table, drawn)
  BY <1>1, TypesOfClient
<1>3. /\ phase[c] = "idle" /\ made' = made + 1 /\ NewHandle(c, made')
      /\ ipcData' = ipcData /\ phase' = phase /\ calls' = calls
      /\ serving' = serving /\ expected' = expected
  BY DEF CreateObject
<1>4. made' \in Object /\ made' \in 0..MaxObjects
  BY <1>1, <1>2, Constants DEF CreateObject, Object
<1>5. PICK r : r = InsertHandle(table, drawn, c, made')
  OBVIOUS
<1>6. table' = r.table /\ drawn' = r.drawn
  BY <1>3, <1>5, Zenon DEF NewHandle
<1>7. Tables(r.table, r.drawn) /\ Inserted(table, drawn, r.table, r.drawn, c, made')
  BY <1>2, <1>4, <1>5, InsertHandleOK
<1>8. Tables(table', drawn') /\ \A d \in Process : d # c => table'[d] = table[d] /\ drawn'[d] = drawn[d]
  BY <1>6, <1>7, Zenon DEF Inserted
<1>9. Buffers'
  BY <1>1, <1>3, <1>8 DEF Types, Buffers, Tables
<1>10. Types'
  BY <1>1, <1>3, <1>4, <1>8, <1>9 DEF Types
<1>11. \A d \in Client : CallOK(d)'
  <2>1. CallOK(c)'
    BY <1>3 DEF CallOK
  <2>2. ASSUME NEW d \in Client, d # c PROVE CallOK(d)'
    <3>1. d \in Process
      BY Constants
    <3>2. table'[d] = table[d] /\ table'[Service] = table[Service]
      BY <1>2, <1>8, <2>2, <3>1
    <3>3. QED
      BY <1>1, <1>3, <3>2, OtherCall
  <2>3. QED
    BY <2>1, <2>2
<1>12. ServiceDraws'
  <2>1. drawn'[Service] = drawn[Service]
    BY <1>2, <1>8
  <2>2. \A d \in Client : Taken(d)' = Taken(d)
    BY <1>3 DEF Taken
  <2>3. drawn'[Service] \in Nat /\ drawn'[Service] <= drawn[Service] + 1
    BY <1>2, <2>1
  <2>4. QED
    BY <1>1, <1>2, <1>3, <2>2, <2>3, NothingReceived
<1>13. QED
  BY <1>10, <1>11, <1>12 DEF Inv

LEMMA Continued ==
    ASSUME Inv, NEW c \in Client, Continue(c)
    PROVE  Inv'
<1>1. Types /\ ServiceDraws /\ \A d \in Client : CallOK(d)
  BY DEF Inv
<1>2. /\ phase[c] = "answered" /\ phase' = [phase EXCEPT ![c] = "idle"]
      /\ expected' = [expected EXCEPT ![c] = <<>>]
      /\ table' = table /\ drawn' = drawn /\ ipcData' = ipcData
      /\ made' = made /\ calls' = calls /\ serving' = serving
  BY DEF Continue, Goto, ipcVars
<1>3. phase' \in [Client -> Phase] /\ expected' \in [Client -> Expected]
  BY <1>1, <1>2 DEF Types, Phase, Expected
<1>4. Types'
  BY <1>1, <1>2, <1>3 DEF Types, Buffers
<1>5. phase'[c] = "idle" /\ \A d \in Client : d # c => phase'[d] = phase[d] /\ expected'[d] = expected[d]
  BY <1>1, <1>2 DEF Types
<1>6. ASSUME NEW d \in Client PROVE CallOK(d)'
  <2>1. CASE d = c
    BY <1>5, <2>1 DEF CallOK
  <2>2. CASE d # c
    BY <1>1, <1>2, <1>5, <2>2, OtherCall
  <2>3. QED
    BY <2>1, <2>2
<1>7. ServiceDraws'
  <2>1. \A d \in Client : Taken(d)' = Taken(d)
    BY <1>2, <1>5 DEF Taken
  <2>2. CallsReceived' = CallsReceived
    BY <2>1 DEF CallsReceived
  <2>3. QED
    BY <1>1, <1>2, <2>2 DEF ServiceDraws
<1>8. QED
  BY <1>4, <1>6, <1>7 DEF Inv

\* The handles that a client may put in its message.
LEMMA ListsOfHandles ==
    ASSUME NEW c \in Process, Tables(table, drawn), NEW hs \in HandleLists(c)
    PROVE  hs \in Seq(Nat) /\ Len(hs) \in 1..2
<1>1. PICK known : known = DOMAIN table[c] \cup {NoHandle}
  OBVIOUS
<1>2. \A h \in known : h \in Nat
  <2>1. \A h \in DOMAIN table[c] : h \in Nat
    BY NamedDrawn, Zenon
  <2>2. NoHandle \in Nat
    BY Constants
  <2>3. QED
    BY <1>1, <2>1, <2>2
<1>3. hs \in {<<h>> : h \in known} \cup (known \X known)
  BY <1>1, Zenon DEF HandleLists
<1>4. CASE hs \in {<<h>> : h \in known}
  <2>1. PICK h \in known : hs = <<h>>
    BY <1>4
  <2>2. h \in Nat
    BY <1>2
  <2>3. QED
    BY <2>1, <2>2
<1>5. CASE hs \in known \X known
  <2>1. PICK g \in known, h \in known : hs = <<g, h>>
    BY <1>5
  <2>2. g \in Nat /\ h \in Nat
    BY <1>2
  <2>3. QED
    BY <2>1, <2>2
<1>6. QED
  BY <1>3, <1>4, <1>5

\* What a list of handles means.
LEMMA MeansList ==
    ASSUME NEW t, NEW d, Tables(t, d), NEW p \in Process, NEW y \in Param,
           NEW f, f = [i \in 1..Len(y.handles) |-> Meant(t, p, y.moved, y.handles, i)]
    PROVE  f \in Expected /\ Means(f, t, p, y)
<1>1. PICK hs \in Seq(Nat) : hs = y.handles
  BY DEF Param
<1>2. PICK n \in Nat : n = Len(hs)
  OBVIOUS
<1>3. f = [i \in 1..n |-> Meant(t, p, y.moved, y.handles, i)]
  BY <1>1, <1>2
<1>4. ASSUME NEW i \in 1..n PROVE Meant(t, p, y.moved, y.handles, i) \in Object \cup {NoObject}
  <2>1. Named(t, p, y.handles[i]) \in Object \cup {NoObject}
    BY NamedDrawn, Zenon
  <2>2. QED
    BY <2>1, Zenon DEF Meant
<1>5. f \in Seq(Object \cup {NoObject}) /\ Len(f) = n
  BY <1>3, <1>4
<1>6. \A i \in 1..n : f[i] = Meant(t, p, y.moved, y.handles, i)
  BY <1>3
<1>7. QED
  BY <1>1, <1>2, <1>5, <1>6, Zenon DEF Expected, Means

\* A request with the list y, which asks for e.
Asks(c, y, command, b, e) ==
    /\ y.calling = FALSE /\ Len(y.handles) \in 1..2
    /\ \E ps : Request(ps, y) /\ InBuffer(b, FALSE, command, <<>>, << 7 >>, ps)
    /\ \E f \in Expected : Means(f, table, c, y) /\ e = <<NoObject>> \o f

LEMMA RequestSent ==
    ASSUME Types, NEW c \in Client, SendSyncRequest(c)
    PROVE  \E b, e : /\ ipcData' = [ipcData EXCEPT ![c] = b] /\ expected' = [expected EXCEPT ![c] = e]
                     /\ \E y \in Param : Asks(c, y, calls[c] + 1, b, e)
<1>1. /\ c \in Process /\ Tables(table, drawn) /\ calls[c] \in Nat
      /\ ipcData[c] \in Seq(Nat) /\ Len(ipcData[c]) = BufferWords
  BY TypesOfClient
<1>2. PICK moved \in BOOLEAN, buffer \in BOOLEAN, hs \in HandleLists(c) :
          /\ ipcData' = [ipcData EXCEPT ![c] = Over(@, GuestRequest(calls[c] + 1, << 7 >>,
                             (IF buffer THEN <<StaticBuffer>> ELSE <<>>)
                             \o <<HandleParam(FALSE, TRUE, <<NoHandle>>),
                                  HandleParam(moved, FALSE, hs)>>))]
          /\ expected' = [expected EXCEPT ![c] = <<NoObject>> \o [i \in 1..Len(hs) |->
                             IF moved /\ \E j \in 1..(i - 1) : hs[j] = hs[i]
                             THEN NoObject ELSE Named(table, c, hs[i])]]
  BY DEF SendSyncRequest
<1>3. hs \in Seq(Nat) /\ Len(hs) \in 1..2
  BY <1>1, ListsOfHandles
<1>4. PICK y \in Param : /\ y = HandleParam(moved, FALSE, hs) /\ y.handles = hs
                         /\ y.moved = moved /\ y.calling = FALSE
  <2>1. PICK y : y = HandleParam(moved, FALSE, hs)
    OBVIOUS
  <2>2. y \in Param /\ y.handles = hs
    BY <1>3, <2>1 DEF HandleParam, Param
  <2>3. y.moved = moved /\ y.calling = FALSE
    BY <2>1 DEF HandleParam
  <2>4. QED
    BY <2>1, <2>2, <2>3, Zenon
<1>5. PICK front : /\ front = <<StaticBuffer>> \/ front = <<>>
                   /\ front = IF buffer THEN <<StaticBuffer>> ELSE <<>>
  OBVIOUS
<1>a. PICK given : given = front \o <<HandleParam(FALSE, TRUE, <<NoHandle>>), y>>
  OBVIOUS
<1>6. PICK command \in Nat : command = calls[c] + 1
  BY <1>1
<1>7. PICK w \in Seq(Nat) : w = ipcData[c] /\ Len(w) = BufferWords
  BY <1>1
<1>8. PICK b : b = Over(w, GuestRequest(command, << 7 >>, given))
  OBVIOUS
<1>9. \E ps : Request(ps, y) /\ InBuffer(b, FALSE, command, <<>>, << 7 >>, ps)
  BY <1>3, <1>4, <1>5, <1>a, <1>7, <1>8, RequestRead, Zenon
<1>10. ipcData' = [ipcData EXCEPT ![c] = b]
  BY <1>2, <1>4, <1>5, <1>a, <1>6, <1>7, <1>8, Zenon
<1>11. PICK f : f = [i \in 1..Len(y.handles) |-> Meant(table, c, y.moved, y.handles, i)]
  OBVIOUS
<1>12. f \in Expected /\ Means(f, table, c, y)
  BY <1>1, <1>11, MeansList, Zenon
<1>13. PICK e : e = <<NoObject>> \o f
  OBVIOUS
<1>14. expected' = [expected EXCEPT ![c] = e]
  <2>1. f = [i \in 1..Len(hs) |-> IF moved /\ \E j \in 1..(i - 1) : hs[j] = hs[i]
                                  THEN NoObject ELSE Named(table, c, hs[i])]
    BY <1>4, <1>11, Zenon DEF Meant
  <2>2. QED
    BY <1>2, <1>13, <2>1, Zenon
<1>15. Asks(c, y, command, b, e)
  BY <1>3, <1>4, <1>9, <1>12, <1>13, Zenon DEF Asks
<1>16. QED
  BY <1>6, <1>10, <1>14, <1>15, Zenon

LEMMA ExpectedInFront == ASSUME NEW f \in Expected PROVE <<NoObject>> \o f \in Expected
<1>1. PICK S : S = Object \cup {NoObject}
  OBVIOUS
<1>2. NoObject \in S /\ f \in Seq(S)
  BY <1>1 DEF Expected
<1>3. <<NoObject>> \o f \in Seq(S)
  BY <1>2
<1>4. QED
  BY <1>1, <1>3, Zenon DEF Expected

LEMMA Sent ==
    ASSUME Inv, NEW c \in Client, SendSyncRequest(c)
    PROVE  Inv'
<1>1. Types /\ ServiceDraws /\ \A d \in Client : CallOK(d)
  BY DEF Inv
<1>2. /\ c \in Process /\ c # Service /\ Service \in Process /\ made \in Nat /\ drawn[Service] \in Nat
      /\ calls[c] \in Nat
  BY <1>1, TypesOfClient
<1>3. /\ phase[c] = "idle" /\ calls[c] < MaxCalls /\ calls' = [calls EXCEPT ![c] = @ + 1]
      /\ phase' = [phase EXCEPT ![c] = "asking"]
      /\ table' = table /\ drawn' = drawn /\ made' = made /\ serving' = serving
  BY DEF SendSyncRequest, Goto
<1>4. PICK b, e : /\ ipcData' = [ipcData EXCEPT ![c] = b] /\ expected' = [expected EXCEPT ![c] = e]
                  /\ \E y \in Param : Asks(c, y, calls[c] + 1, b, e)
  BY <1>1, RequestSent, Zenon
<1>5. PICK y \in Param : Asks(c, y, calls[c] + 1, b, e)
  BY <1>4
<1>6. PICK ps : Request(ps, y) /\ InBuffer(b, FALSE, calls[c] + 1, <<>>, << 7 >>, ps)
  BY <1>5, Zenon DEF Asks
<1>7. b \in Seq(Nat) /\ Len(b) = BufferWords
  BY <1>6 DEF InBuffer
<1>8. PICK f \in Expected : Means(f, table, c, y) /\ e = <<NoObject>> \o f
  BY <1>5, Zenon DEF Asks
<1>9. e \in Expected
  BY <1>8, ExpectedInFront, Zenon
<1>10. phase' \in [Client -> Phase] /\ expected' \in [Client -> Expected]
  BY <1>1, <1>3, <1>4, <1>9 DEF Types, Phase
<1>11. calls' \in [Client -> 0..MaxCalls] /\ calls'[c] = calls[c] + 1
  BY <1>1, <1>2, <1>3, Constants DEF Types
<1>12. Buffers' /\ ipcData'[c] = b
  BY <1>1, <1>2, <1>3, <1>4, <1>7 DEF Types, Buffers
<1>13. Types'
  BY <1>1, <1>3, <1>10, <1>11, <1>12 DEF Types
<1>14. phase'[c] = "asking" /\ expected'[c] = e
  BY <1>1, <1>3, <1>4 DEF Types
<1>15. ASSUME NEW d \in Client, d # c
       PROVE  /\ phase'[d] = phase[d] /\ expected'[d] = expected[d] /\ calls'[d] = calls[d]
              /\ ipcData'[d] = ipcData[d] /\ ipcData'[Service] = ipcData[Service]
  BY <1>1, <1>2, <1>3, <1>4, <1>15, Constants DEF Types, Buffers
<1>16. AskedOf(table, c, b, e)
  <2>1. PICK command \in Nat : command = calls[c] + 1
    BY <1>2
  <2>2. Expects(e, table, c, y)
    BY <1>8, Zenon DEF Expects
  <2>3. y.calling = FALSE /\ Len(y.handles) \in 1..2
    BY <1>5 DEF Asks
  <2>4. QED
    BY <1>6, <2>1, <2>2, <2>3, Zenon DEF AskedOf
<1>17. ASSUME NEW d \in Client PROVE CallOK(d)'
  <2>1. CASE d = c
    <3>1. calls'[c] >= 1
      BY <1>2, <1>11
    <3>2. AskedOf(table', c, ipcData'[c], expected'[c])
      BY <1>3, <1>12, <1>14, <1>16, Zenon
    <3>3. QED
      BY <1>14, <2>1, <3>1, <3>2 DEF CallOK
  <2>2. CASE d # c
    BY <1>1, <1>3, <1>15, <2>2, OtherCall
  <2>3. QED
    BY <2>1, <2>2
<1>18. ServiceDraws'
  <2>1. ASSUME NEW d \in Client PROVE Taken(d)' = Taken(d)
    <3>1. CASE d = c
      BY <1>2, <1>3, <1>11, <1>14, <3>1 DEF Taken
    <3>2. CASE d # c
      BY <1>15, <3>2 DEF Taken
    <3>3. QED
      BY <3>1, <3>2
  <2>2. drawn'[Service] \in Nat /\ drawn'[Service] <= drawn[Service] + 0 /\ made' = made + 0 /\ 0 \in Nat
    BY <1>2, <1>3
  <2>3. QED
    BY <1>1, <1>2, <2>1, <2>2, NothingReceived
<1>19. QED
  BY <1>13, <1>17, <1>18 DEF Inv

\* The handles of a request as its sender finds them in its buffer.
LEMMA HandlesInRequest ==
    ASSUME NEW y \in Param, NEW ps, Request(ps, y), NEW b,
           NEW command, InBuffer(b, FALSE, command, <<>>, << 7 >>, ps)
    PROVE  \A i \in 1..Len(y.handles) : HandlesOf(Read(b, FALSE).params)[1 + i] = y.handles[i]
<1>0. PICK vs \in Seq(Nat) : vs = y.handles
  BY DEF Param
<1>1. PICK x \in Param : x = CallingParam /\ x.handles = <<CurrentProcess>>
  BY ParamsOfRequests
<1>2. HandlesOf(ps) = x.handles \o y.handles
  BY <1>1, HandlesOfTwo, Zenon DEF Request
<1>3. PICK size : ReadsAs(b, FALSE, command, <<>>, << 7 >>, ps, size)
  BY DEF InBuffer
<1>4. PICK m : m = Read(b, FALSE)
  OBVIOUS
<1>5. m.params = ps
  <2>1. m = [command |-> command, result |-> <<>>, normals |-> << 7 >>, params |-> ps]
    BY <1>3, <1>4, Zenon DEF ReadsAs
  <2>2. QED
    BY <2>1
<1>6. PICK us \in Seq(Nat) : us = <<CurrentProcess>> /\ Len(us) = 1 /\ us[1] = CurrentProcess
  <2>1. CurrentProcess \in Nat
    BY Constants
  <2>2. QED
    BY <2>1, ListOne
<1>7. PICK a : a = us \o vs
  OBVIOUS
<1>8. \A i \in 1..Len(vs) : a[1 + i] = vs[i]
  BY <1>6, <1>7
<1>9. HandlesOf(Read(b, FALSE).params) = a
  BY <1>0, <1>1, <1>2, <1>4, <1>5, <1>6, <1>7, Zenon
<1>10. QED
  BY <1>0, <1>8, <1>9, Zenon

\* What a message is to carry when another thread has closed h.
Without(e, hs, h) == [i \in 1..Len(e) |-> IF hs[i] = h THEN NoObject ELSE e[i]]

\* A list of handles means the same but for what is closed.
LEMMA MeansClosed ==
    ASSUME NEW t, NEW T, NEW p, NEW h, \A x : Named(T, p, x) = IF x = h THEN NoObject ELSE Named(t, p, x),
           NEW y \in Param, NEW f \in Expected, Means(f, t, p, y)
    PROVE  Without(f, y.handles, h) \in Expected /\ Means(Without(f, y.handles, h), T, p, y)
<1>a. PICK vs \in Seq(Nat) : vs = y.handles
  BY DEF Param
<1>b. PICK g : g = Without(f, vs, h)
  OBVIOUS
<1>1. PICK n \in Nat : n = Len(vs) /\ Len(f) = n
  BY <1>a DEF Means
<1>2. PICK S : S = Object \cup {NoObject}
  OBVIOUS
<1>3. f \in Seq(S) /\ NoObject \in S
  BY <1>2 DEF Expected
<1>4. \A i \in 1..n : f[i] \in S
  BY <1>1, <1>3
<1>5. g \in Seq(S) /\ Len(g) = n /\ \A i \in 1..n : g[i] = IF vs[i] = h THEN NoObject ELSE f[i]
  BY <1>1, <1>3, <1>4, <1>b DEF Without
<1>6. ASSUME NEW i \in 1..n PROVE g[i] = Meant(T, p, y.moved, vs, i)
  <2>1. f[i] = Meant(t, p, y.moved, vs, i)
    BY <1>1, <1>a, Zenon DEF Means
  <2>2. CASE y.moved /\ \E j \in 1..(i - 1) : vs[j] = vs[i]
    <3>1. f[i] = NoObject /\ Meant(T, p, y.moved, vs, i) = NoObject
      BY <2>1, <2>2, Zenon DEF Meant
    <3>2. QED
      BY <1>5, <3>1, Zenon
  <2>3. CASE ~(y.moved /\ \E j \in 1..(i - 1) : vs[j] = vs[i])
    <3>1. f[i] = Named(t, p, vs[i]) /\ Meant(T, p, y.moved, vs, i) = Named(T, p, vs[i])
      BY <2>1, <2>3, Zenon DEF Meant
    <3>2. Named(T, p, vs[i]) = IF vs[i] = h THEN NoObject ELSE Named(t, p, vs[i])
      BY Zenon
    <3>3. QED
      BY <1>5, <3>1, <3>2, Zenon
  <2>4. QED
    BY <2>2, <2>3
<1>7. QED
  BY <1>1, <1>2, <1>5, <1>6, <1>a, <1>b, Zenon DEF Expected, Means

\* What is left of the request when another thread has closed a handle.
LEMMA AskedClosed ==
    ASSUME NEW t, NEW T, NEW p, NEW h, \A x : Named(T, p, x) = IF x = h THEN NoObject ELSE Named(t, p, x),
           NEW b, NEW e, AskedOf(t, p, b, e)
    PROVE  /\ Without(e, HandlesOf(Read(b, FALSE).params), h) \in Expected
           /\ AskedOf(T, p, b, Without(e, HandlesOf(Read(b, FALSE).params), h))
<1>a. PICK hs : hs = HandlesOf(Read(b, FALSE).params)
  OBVIOUS
<1>b. PICK g : g = Without(e, hs, h)
  OBVIOUS
<1>1. PICK y \in Param, command \in Nat :
         /\ y.calling = FALSE /\ Len(y.handles) \in 1..2 /\ Expects(e, t, p, y)
         /\ \E ps : Request(ps, y) /\ InBuffer(b, FALSE, command, <<>>, << 7 >>, ps)
  BY Zenon DEF AskedOf
<1>2. PICK ps : Request(ps, y) /\ InBuffer(b, FALSE, command, <<>>, << 7 >>, ps)
  BY <1>1
<1>3. PICK f \in Expected : Means(f, t, p, y) /\ e = <<NoObject>> \o f
  BY <1>1, Zenon DEF Expects
<1>4. PICK vs \in Seq(Nat) : vs = y.handles
  BY DEF Param
<1>5. PICK n \in Nat : n = Len(vs) /\ Len(f) = n
  BY <1>3, <1>4 DEF Means
<1>6. \A i \in 1..n : hs[1 + i] = vs[i]
  <2>1. \A i \in 1..Len(y.handles) : HandlesOf(Read(b, FALSE).params)[1 + i] = y.handles[i]
    BY <1>2, HandlesInRequest
  <2>2. QED
    BY <1>4, <1>5, <1>a, <2>1, Zenon
<1>7. PICK k : k = Without(f, vs, h)
  OBVIOUS
<1>8. k \in Expected /\ Means(k, T, p, y)
  BY <1>3, <1>4, <1>7, MeansClosed, Zenon
<1>9. PICK S : S = Object \cup {NoObject}
  OBVIOUS
<1>10. PICK z \in Seq(S) : z = <<NoObject>> /\ Len(z) = 1 /\ z[1] = NoObject
  <2>1. NoObject \in S
    BY <1>9
  <2>2. QED
    BY <2>1, ListOne
<1>11. f \in Seq(S) /\ k \in Seq(S) /\ Len(k) = n
  BY <1>3, <1>5, <1>7, <1>8, <1>9 DEF Expected, Without
<1>12. e = z \o f
  BY <1>3, <1>10, Zenon
<1>13. Len(e) = 1 + n /\ e[1] = NoObject /\ \A i \in 1..n : e[1 + i] = f[i]
  BY <1>5, <1>10, <1>11, <1>12
<1>14. PICK a : a = z \o k
  OBVIOUS
<1>15. a \in Seq(S) /\ Len(a) = 1 + n /\ a[1] = NoObject /\ \A i \in 1..n : a[1 + i] = k[i]
  BY <1>10, <1>11, <1>14
<1>16. g = a
  <2>1. g = [i \in 1..(1 + n) |-> IF hs[i] = h THEN NoObject ELSE e[i]]
    BY <1>13, <1>b DEF Without
  <2>2. a = [i \in 1..(1 + n) |-> a[i]]
    BY <1>15
  <2>3. ASSUME NEW i \in 1..(1 + n) PROVE a[i] = IF hs[i] = h THEN NoObject ELSE e[i]
    <3>1. CASE i = 1
      BY <1>13, <1>15, <3>1, Zenon
    <3>2. CASE i # 1
      <4>1. PICK j \in 1..n : i = 1 + j
        <5>1. i - 1 \in 1..n /\ i = 1 + (i - 1)
          BY <3>2
        <5>2. QED
          BY <5>1, Zenon
      <4>2. a[i] = k[j] /\ e[i] = f[j] /\ hs[i] = vs[j]
        BY <1>6, <1>13, <1>15, <4>1, Zenon
      <4>3. k[j] = IF vs[j] = h THEN NoObject ELSE f[j]
        BY <1>5, <1>7 DEF Without
      <4>4. QED
        BY <4>2, <4>3, Zenon
    <3>3. QED
      BY <3>1, <3>2
  <2>4. QED
    BY <2>1, <2>2, <2>3
<1>17. a = <<NoObject>> \o k
  BY <1>10, <1>14, Zenon
<1>18. Expects(g, T, p, y)
  BY <1>8, <1>16, <1>17, Zenon DEF Expects
<1>19. g \in Expected
  BY <1>9, <1>15, <1>16, Zenon DEF Expected
<1>20. QED
  BY <1>1, <1>18, <1>19, <1>a, <1>b, Zenon DEF AskedOf

LEMMA Closed ==
    ASSUME Inv, NEW c \in Client, CloseHandle(c)
    PROVE  Inv'
<1>1. Types /\ ServiceDraws /\ \A d \in Client : CallOK(d)
  BY DEF Inv
<1>2. /\ c \in Process /\ c # Service /\ Service \in Process /\ made \in Nat /\ drawn[Service] \in Nat
      /\ Tables(table, drawn) /\ expected[c] \in Expected
  BY <1>1, TypesOfClient
<1>3. /\ phase[c] \in {"idle", "asking"} /\ drawn' = drawn /\ ipcData' = ipcData /\ made' = made
      /\ phase' = phase /\ calls' = calls /\ serving' = serving
  BY DEF CloseHandle
<1>4. PICK h \in DOMAIN table[c] :
         /\ table' = RemoveHandle(table, c, h)
         /\ expected' = IF phase[c] = "idle" THEN expected
                        ELSE [expected EXCEPT ![c] =
                            Without(@, HandlesOf(Read(ipcData[c], FALSE).params), h)]
  BY DEF CloseHandle, Without, HandlesOf
<1>5. PICK T : T = RemoveHandle(table, c, h)
  OBVIOUS
<1>6. Tables(T, drawn) /\ Removed(table, T, c, h)
  BY <1>2, <1>5, RemoveHandleOK
<1>7. table' = T
  BY <1>4, <1>5
<1>8. Tables(table', drawn') /\ \A d \in Process : d # c => table'[d] = table[d]
  BY <1>3, <1>6, <1>7 DEF Removed
<1>9. \A x : Named(T, c, x) = IF x = h THEN NoObject ELSE Named(table, c, x)
  BY <1>2, <1>6, NamedRemoved
<1>10. PICK g : g = Without(expected[c], HandlesOf(Read(ipcData[c], FALSE).params), h)
  OBVIOUS
<1>11. phase[c] = "asking" => g \in Expected /\ AskedOf(T, c, ipcData[c], g)
  <2>1. HAVE phase[c] = "asking"
  <2>2. AskedOf(table, c, ipcData[c], expected[c])
    BY <1>1, <2>1 DEF CallOK
  <2>3. QED
    BY <1>9, <1>10, <2>2, AskedClosed, Zenon
<1>12. /\ phase[c] = "asking" => expected' = [expected EXCEPT ![c] = g]
       /\ phase[c] = "idle" => expected' = expected
  BY <1>4, <1>10
<1>13. expected' \in [Client -> Expected] /\ \A d \in Client : d # c => expected'[d] = expected[d]
  <2>1. expected \in [Client -> Expected]
    BY <1>1 DEF Types
  <2>2. CASE phase[c] = "asking"
    BY <1>11, <1>12, <2>1, <2>2
  <2>3. CASE phase[c] = "idle"
    BY <1>12, <2>1, <2>3
  <2>4. QED
    BY <1>3, <2>2, <2>3
<1>14. Types'
  BY <1>1, <1>3, <1>8, <1>13 DEF Types, Buffers
<1>15. ASSUME NEW d \in Client PROVE CallOK(d)'
  <2>1. CASE d = c /\ phase[c] = "idle"
    BY <1>3, <2>1 DEF CallOK
  <2>2. CASE d = c /\ phase[c] = "asking"
    <3>1. expected'[c] = g
      BY <1>1, <1>12, <2>2 DEF Types
    <3>2. AskedOf(table', c, ipcData'[c], expected'[c])
      BY <1>3, <1>7, <1>11, <2>2, <3>1, Zenon
    <3>3. calls'[c] >= 1
      BY <1>1, <1>3, <2>2 DEF CallOK
    <3>4. QED
      BY <1>3, <2>2, <3>2, <3>3 DEF CallOK
  <2>3. CASE d # c
    <3>1. d \in Process
      BY Constants
    <3>2. table'[d] = table[d] /\ table'[Service] = table[Service] /\ expected'[d] = expected[d]
      BY <1>2, <1>8, <1>13, <2>3, <3>1
    <3>3. QED
      BY <1>1, <1>3, <3>2, OtherCall
  <2>4. QED
    BY <1>3, <2>1, <2>2, <2>3
<1>16. ServiceDraws'
  <2>1. \A d \in Client : Taken(d)' = Taken(d)
    BY <1>3 DEF Taken
  <2>2. drawn'[Service] \in Nat /\ drawn'[Service] <= drawn[Service] + 0 /\ made' = made + 0 /\ 0 \in Nat
    BY <1>2, <1>3
  <2>3. QED
    BY <1>1, <1>2, <2>1, <2>2, NothingReceived
<1>17. QED
  BY <1>14, <1>15, <1>16 DEF Inv

-----------------------------------------------------------------------------
(* The service's steps *)

\* The request that the service receives.
LEMMA RequestReceived ==
    ASSUME Types, NEW c \in Client, CallOK(c), Receive(c)
    PROVE  \E y \in Param, command \in Nat :
               /\ y.calling = FALSE /\ Len(y.handles) \in 1..2 /\ Expects(expected[c], table, c, y)
               /\ \E ps : Request(ps, y) /\ InBuffer(ipcData[c], FALSE, command, <<>>, << 7 >>, ps)
               /\ \E b1, b2 : RequestMoves(b1, b2, command, y, c, Service)
<1>1. /\ c \in Process /\ Service \in Process /\ c # Service /\ Tables(table, drawn) /\ Buffers
  BY TypesOfClient DEF Types
<1>2. phase[c] = "asking" /\ TranslateIpc(c, Service, FALSE)
  BY DEF Receive
<1>3. AskedOf(table, c, ipcData[c], expected[c])
  BY <1>2 DEF CallOK
<1>4. PICK y \in Param, command \in Nat :
         /\ y.calling = FALSE /\ Len(y.handles) \in 1..2 /\ Expects(expected[c], table, c, y)
         /\ \E ps : Request(ps, y) /\ InBuffer(ipcData[c], FALSE, command, <<>>, << 7 >>, ps)
  BY <1>3, Zenon DEF AskedOf
<1>5. PICK ps : Request(ps, y) /\ InBuffer(ipcData[c], FALSE, command, <<>>, << 7 >>, ps)
  BY <1>4
<1>6. \E b1, b2 : RequestMoves(b1, b2, command, y, c, Service)
  BY <1>1, <1>2, <1>4, <1>5, RequestTranslated, Zenon
<1>7. QED
  BY <1>4, <1>6, Zenon

LEMMA Received ==
    ASSUME Inv, NEW c \in Client, Receive(c)
    PROVE  Inv'
<1>1. Types /\ ServiceDraws /\ \A d \in Client : CallOK(d)
  BY DEF Inv
<1>2. /\ c \in Process /\ c # Service /\ Service \in Process /\ made \in Nat /\ made <= MaxObjects
      /\ drawn[Service] \in Nat /\ Tables(table, drawn) /\ calls \in [Client -> 0..MaxCalls]
  BY <1>1, TypesOfClient
<1>3. /\ phase[c] = "asking" /\ serving = NoClient /\ serving' = c
      /\ phase' = [phase EXCEPT ![c] = "received"]
      /\ made' = made /\ calls' = calls /\ expected' = expected
  BY DEF Receive, Goto
<1>4. PICK y \in Param, command \in Nat :
         /\ y.calling = FALSE /\ Len(y.handles) \in 1..2 /\ Expects(expected[c], table, c, y)
         /\ \E ps : Request(ps, y) /\ InBuffer(ipcData[c], FALSE, command, <<>>, << 7 >>, ps)
         /\ \E b1, b2 : RequestMoves(b1, b2, command, y, c, Service)
  BY <1>1, RequestReceived, Zenon
<1>5. PICK b1, b2 : RequestMoves(b1, b2, command, y, c, Service)
  BY <1>4
<1>6. Tables(table', drawn') /\ Draws(table, drawn, table', drawn', 3, c, Service)
  BY <1>2, <1>4, <1>5, RequestTables, Zenon
<1>7. /\ drawn'[Service] \in Nat /\ drawn'[Service] <= drawn[Service] + 3
      /\ \A d \in Client : d # c => table'[d] = table[d]
  BY <1>2, <1>6, Constants DEF Draws, Tables
<1>8. phase'[c] = "received" /\ (\A d \in Client \ {c} : phase'[d] = phase[d])
      /\ phase' \in [Client -> Phase]
  BY <1>1, <1>3 DEF Types, Phase
<1>9. calls[c] >= 1
  BY <1>1, <1>3 DEF CallOK
<1>10. ServiceDraws' /\ drawn'[Service] <= made + 3 * Cardinality(CallsReceived')
  BY <1>1, <1>2, <1>3, <1>7, <1>8, <1>9, OneReceived
<1>11. drawn'[Service] < CurrentProcess
  <2>1. CallsReceived' \subseteq Client \X (1..MaxCalls)
    BY DEF CallsReceived
  <2>2. QED
    BY <1>2, <1>7, <1>10, <2>1, CallsBound
<1>12. PICK o \in Seq(Nat) : /\ ipcData' = [ipcData EXCEPT ![Service] = o] /\ Len(o) = BufferWords
                             /\ ReadBy(table', Service, o, FALSE, expected[c])
  <2>1. PICK e : e = expected[c]
    OBVIOUS
  <2>2. Expects(e, table, c, y)
    BY <1>4, <2>1, Zenon
  <2>3. Lands(Service, FALSE, e)
    BY <1>2, <1>4, <1>5, <1>11, <2>2, RequestArrives, Zenon
  <2>4. QED
    BY <2>1, <2>3, Zenon DEF Lands
<1>13. ipcData \in [Process -> Seq(Nat)] /\ \A r \in Process : Len(ipcData[r]) = BufferWords
  BY <1>1 DEF Types, Buffers
<1>14. /\ ipcData' \in [Process -> Seq(Nat)] /\ ipcData'[Service] = o
       /\ \A r \in Process : r # Service => ipcData'[r] = ipcData[r]
  BY <1>2, <1>12, <1>13
<1>15. drawn' \in [Process -> Nat]
  BY <1>6 DEF Tables
<1>16. Buffers'
  BY <1>12, <1>13, <1>14, <1>15 DEF Buffers
<1>17. Types'
  BY <1>1, <1>3, <1>6, <1>8, <1>16 DEF Types
<1>18. ASSUME NEW d \in Client PROVE CallOK(d)'
  <2>1. CASE d = c
    <3>1. ReadBy(table', Service, ipcData'[Service], FALSE, expected'[c])
      BY <1>3, <1>12, <1>14, Zenon
    <3>2. QED
      BY <1>3, <1>8, <2>1, <3>1 DEF CallOK
  <2>2. CASE d # c
    <3>1. phase[d] \notin {"received", "handled"}
      <4>1. serving # d
        BY <1>3, Constants
      <4>2. QED
        BY <1>1, <4>1 DEF CallOK
    <3>2. ipcData'[d] = ipcData[d] /\ table'[d] = table[d] /\ phase'[d] = phase[d]
      BY <1>7, <1>8, <1>14, <2>2, Constants
    <3>3. QED
      BY <1>1, <1>3, <3>1, <3>2, OtherCall
  <2>3. QED
    BY <2>1, <2>2
<1>19. QED
  BY <1>10, <1>17, <1>18 DEF Inv

\* The response that the service writes.
LEMMA ListWritten ==
    ASSUME NEW command \in Nat, NEW normals \in Seq(Nat), Len(normals) <= 2,
           NEW y \in Param, MovedList(y), NEW b \in Seq(Nat), Len(b) = BufferWords
    PROVE  InBuffer(Over(b, ResponseWords(command, normals, <<y>>)), TRUE, command, << 0 >>, normals, <<y>>)
<1>1. PICK result \in Seq(Nat) : result = << 0 >> /\ Len(result) = 1
  <2>1. << 0 >> \in Seq(Nat) /\ Len(<< 0 >>) = 1
    OBVIOUS
  <2>2. QED
    BY <2>1, Zenon
<1>2. Len(normals) < 64 /\ HasResult(result, TRUE)
  BY <1>1 DEF HasResult
<1>a. y.calling = FALSE /\ Len(y.handles) \in 1..2
  BY DEF MovedList
<1>3. PICK n \in 1..2 : n = Len(y.handles)
  BY <1>a
<1>4. PICK k \in Nat : k = 1 + Len(y.handles) /\ k <= 3
  <2>1. PICK k \in Nat : k = 1 + n /\ k <= 3
    OBVIOUS
  <2>2. QED
    BY <1>3, <2>1, Zenon
<1>5. Len(y.handles) \in 1..60
  BY <1>3
<1>6. Seen(y) = y
  <2>1. HandleParam(y.moved, FALSE, y.handles) = y
    BY <1>a DEF HandleParam, Param
  <2>2. QED
    BY <1>a, <2>1, Zenon DEF Seen
<1>7. PICK o : o = Over(b, Written(command, result, normals, <<y>>))
  OBVIOUS
<1>8. Delivered(o, b, TRUE, command, result, normals, <<y>>, k)
  BY <1>2, <1>4, <1>5, <1>6, <1>7, WrittenOne, Zenon
<1>9. PICK m \in Nat : m = Len(normals) /\ m <= 2
  OBVIOUS
<1>10. Len(result) <= 1 /\ Len(normals) <= 2 /\ k <= 7 /\ (Len(result) + Len(normals)) + k <= 8
  <2>a. k <= 3
    BY <1>4
  <2>1. 1 <= 1 /\ k <= 7 /\ (1 + m) + k <= 8
    BY <1>9, <2>a
  <2>2. QED
    BY <1>1, <1>9, <2>1, Zenon
<1>11. InBuffer(o, TRUE, command, result, normals, <<y>>)
  BY <1>8, <1>10, ShortDelivered, Zenon
<1>12. QED
  BY <1>1, <1>7, <1>11, Zenon DEF ResponseWords

LEMMA EmptyWritten ==
    ASSUME NEW command \in Nat, NEW normals \in Seq(Nat), Len(normals) <= 2,
           NEW b \in Seq(Nat), Len(b) = BufferWords
    PROVE  InBuffer(Over(b, ResponseWords(command, normals, <<>>)), TRUE, command, << 0 >>, normals, <<>>)
<1>1. PICK result \in Seq(Nat) : result = << 0 >> /\ Len(result) = 1
  <2>1. << 0 >> \in Seq(Nat) /\ Len(<< 0 >>) = 1
    OBVIOUS
  <2>2. QED
    BY <2>1, Zenon
<1>2. Len(normals) < 64 /\ HasResult(result, TRUE)
  BY <1>1 DEF HasResult
<1>3. PICK o : o = Over(b, Written(command, result, normals, <<>>))
  OBVIOUS
<1>4. Delivered(o, b, TRUE, command, result, normals, <<>>, 0)
  BY <1>2, <1>3, WrittenNone, Zenon
<1>5. PICK m \in Nat : m = Len(normals) /\ m <= 2
  OBVIOUS
<1>6. 0 \in Nat /\ Len(result) <= 1 /\ Len(normals) <= 2 /\ 0 <= 7 /\ (Len(result) + Len(normals)) + 0 <= 8
  <2>1. 0 \in Nat /\ 1 <= 1 /\ 0 <= 7 /\ (1 + m) + 0 <= 8
    BY <1>5
  <2>2. QED
    BY <1>1, <1>5, <2>1, Zenon
<1>7. InBuffer(o, TRUE, command, result, normals, <<>>)
  BY <1>4, <1>6, ShortDelivered, Zenon
<1>8. QED
  BY <1>1, <1>3, <1>7, Zenon DEF ResponseWords

\* The service's table has what the list y names: e; d handles of it have been drawn.
Gives(r, d, e, y) ==
    /\ Tables(r.table, r.drawn) /\ r.drawn[Service] = d
    /\ \A q \in Process : q # Service => r.table[q] = table[q]
    /\ e \in Expected /\ Means(e, r.table, Service, y)

\* One new object, and its handle in the answer.
LEMMA OneAnswered ==
    ASSUME Tables(table, drawn), NEW m \in Nat, m + 1 <= MaxObjects, NEW k, k = drawn[Service],
           NEW one, one = InsertHandle(table, drawn, Service, m + 1),
           NEW y \in Param, MovedList(y), y.handles = <<k + 1>>
    PROVE  Gives(one, k + 1, <<m + 1>>, y)
<1>1. Service \in Process /\ m + 1 \in Object
  BY Constants DEF Object
<1>2. Tables(one.table, one.drawn) /\ Inserted(table, drawn, one.table, one.drawn, Service, m + 1)
  BY <1>1, InsertHandleOK
<1>3. /\ one.drawn[Service] = k + 1
      /\ \A q \in Process : q # Service => one.table[q] = table[q] /\ one.drawn[q] = drawn[q]
  BY <1>2, Zenon DEF Inserted
<1>4. \A x : Named(one.table, Service, x) = IF x = k + 1 THEN m + 1 ELSE Named(table, Service, x)
  BY <1>1, <1>2, NamedInserted
<1>5. PICK e : e = <<m + 1>>
  OBVIOUS
<1>6. e \in Seq(Object \cup {NoObject}) /\ Len(e) = 1 /\ e[1] = m + 1
  BY <1>1, <1>5
<1>7. PICK hs : hs = <<k + 1>> /\ Len(hs) = 1 /\ hs[1] = k + 1
  OBVIOUS
<1>8. Meant(one.table, Service, TRUE, hs, 1) = m + 1
  <2>1. ~\E j \in 1..(1 - 1) : hs[j] = hs[1]
    OBVIOUS
  <2>2. QED
    BY <1>4, <1>7, <2>1, Zenon DEF Meant
<1>9. Means(e, one.table, Service, y)
  <2>0. y.moved = TRUE
    BY DEF MovedList
  <2>1. \A i \in 1..1 : i = 1
    OBVIOUS
  <2>2. \A i \in 1..Len(hs) : e[i] = Meant(one.table, Service, TRUE, hs, i)
    BY <1>6, <1>7, <1>8, <2>1, Zenon
  <2>3. QED
    BY <1>6, <1>7, <2>0, <2>2, Zenon DEF Means
<1>10. QED
  BY <1>2, <1>3, <1>4, <1>5, <1>6, <1>9, Zenon DEF Expected, Gives

\* Two new objects.
LEMMA TwoAnswered ==
    ASSUME Tables(table, drawn), NEW m \in Nat, m + 2 <= MaxObjects, NEW k \in Nat, k = drawn[Service],
           NEW one, one = InsertHandle(table, drawn, Service, m + 1),
           NEW two, two = InsertHandle(one.table, one.drawn, Service, m + 2),
           NEW y \in Param, MovedList(y), y.handles = <<k + 1, k + 2>>
    PROVE  Gives(two, k + 2, <<m + 1, m + 2>>, y)
<1>1. Service \in Process /\ m + 1 \in Object /\ m + 2 \in Object
  BY Constants DEF Object
<1>2. Tables(one.table, one.drawn) /\ Inserted(table, drawn, one.table, one.drawn, Service, m + 1)
  BY <1>1, InsertHandleOK
<1>3. /\ one.drawn[Service] = k + 1
      /\ \A q \in Process : q # Service => one.table[q] = table[q] /\ one.drawn[q] = drawn[q]
  BY <1>2, Zenon DEF Inserted
<1>4. \A x : Named(one.table, Service, x) = IF x = k + 1 THEN m + 1 ELSE Named(table, Service, x)
  BY <1>1, <1>2, NamedInserted
<1>5. /\ Tables(two.table, two.drawn)
      /\ Inserted(one.table, one.drawn, two.table, two.drawn, Service, m + 2)
  BY <1>1, <1>2, InsertHandleOK
<1>6. /\ two.drawn[Service] = (k + 1) + 1
      /\ \A q \in Process : q # Service => two.table[q] = one.table[q] /\ two.drawn[q] = one.drawn[q]
  BY <1>3, <1>5, Zenon DEF Inserted
<1>7. \A x : Named(two.table, Service, x)
                 = IF x = one.drawn[Service] + 1 THEN m + 2 ELSE Named(one.table, Service, x)
  BY <1>1, <1>5, NamedInserted
<1>8. PICK g \in Nat, h \in Nat : g = k + 1 /\ h = k + 2 /\ g # h /\ h = g + 1
  <2>1. k + 1 \in Nat /\ k + 2 \in Nat /\ k + 1 # k + 2 /\ k + 2 = (k + 1) + 1
    OBVIOUS
  <2>2. QED
    BY <2>1, Zenon
<1>9. Named(two.table, Service, g) = m + 1 /\ Named(two.table, Service, h) = m + 2
  BY <1>3, <1>4, <1>7, <1>8, Zenon
<1>10. PICK e : e = <<m + 1, m + 2>>
  OBVIOUS
<1>11. e \in Seq(Object \cup {NoObject}) /\ Len(e) = 2 /\ e[1] = m + 1 /\ e[2] = m + 2
  BY <1>1, <1>10
<1>12. PICK hs : hs = <<g, h>> /\ Len(hs) = 2 /\ hs[1] = g /\ hs[2] = h
  <2>1. <<g, h>> = <<g, h>> /\ Len(<<g, h>>) = 2 /\ <<g, h>>[1] = g /\ <<g, h>>[2] = h
    OBVIOUS
  <2>2. QED
    BY <2>1, Zenon
<1>13. Meant(two.table, Service, TRUE, hs, 1) = m + 1
  <2>1. ~\E j \in 1..(1 - 1) : hs[j] = hs[1]
    OBVIOUS
  <2>2. QED
    BY <1>9, <1>12, <2>1, Zenon DEF Meant
<1>14. Meant(two.table, Service, TRUE, hs, 2) = m + 2
  <2>1. \A j \in 1..(2 - 1) : j = 1
    OBVIOUS
  <2>2. ~\E j \in 1..(2 - 1) : hs[j] = hs[2]
    BY <1>8, <1>12, <2>1, Zenon
  <2>3. QED
    BY <1>9, <1>12, <2>2, Zenon DEF Meant
<1>15. Means(e, two.table, Service, y)
  <2>0. y.moved = TRUE
    BY DEF MovedList
  <2>1. \A i \in 1..2 : i = 1 \/ i = 2
    OBVIOUS
  <2>a. e[1] = Meant(two.table, Service, TRUE, hs, 1) /\ e[2] = Meant(two.table, Service, TRUE, hs, 2)
    BY <1>11, <1>13, <1>14, Zenon
  <2>2. \A i \in 1..Len(hs) : e[i] = Meant(two.table, Service, TRUE, hs, i)
    BY <1>12, <2>1, <2>a, Zenon
  <2>3. y.handles = hs
    BY <1>8, <1>12, Zenon
  <2>4. QED
    BY <1>11, <1>12, <2>0, <2>2, <2>3, Zenon DEF Means
<1>16. \A q \in Process : q # Service => two.table[q] = table[q] /\ two.drawn[q] = drawn[q]
  BY <1>3, <1>6, Zenon
<1>17. two.drawn[Service] = k + 2
  BY <1>6
<1>18. QED
  BY <1>5, <1>10, <1>11, <1>15, <1>16, <1>17, Zenon DEF Expected, Gives

\* The answer to c with n new objects.
Answered(c, n, e) ==
    /\ Tables(table', drawn') /\ drawn'[Service] = drawn[Service] + n
    /\ \A q \in Process : q # Service => table'[q] = table[q]
    /\ made' = made + n /\ made' <= MaxObjects
    /\ expected' = [expected EXCEPT ![c] = e] /\ e \in Expected
    /\ \E o \in Seq(Nat) : /\ Len(o) = BufferWords /\ ipcData' = [ipcData EXCEPT ![Service] = o]
                           /\ HandledOf(table', o, e)

\* What handle_ipc writes and creates.
Answering(c, n, command) ==
    LET one  == InsertHandle(table, drawn, Service, made + 1)
        two  == InsertHandle(one.table, one.drawn, Service, made + 2)
        moved == MovedHandles(drawn[Service], n)
    IN  /\ made + n <= MaxObjects /\ made' = made + n
        /\ expected' = [expected EXCEPT ![c] = [i \in 1..n |-> made + i]]
        /\ \/ /\ n = 0 /\ table' = table /\ drawn' = drawn
              /\ ipcData' = [ipcData EXCEPT ![Service] = Over(@, ResponseWords(command, <<>>, <<>>))]
           \/ /\ n = 1 /\ table' = one.table /\ drawn' = one.drawn
              /\ ipcData' = [ipcData EXCEPT ![Service] = Over(@, ResponseWords(command, <<7, 0>>, <<moved>>))]
           \/ /\ n = 2 /\ table' = two.table /\ drawn' = two.drawn
              /\ ipcData' = [ipcData EXCEPT ![Service] = Over(@, ResponseWords(command, <<>>, <<moved>>))]

LEMMA HandleIpcAnswers ==
    ASSUME Types, NEW c \in Client, HandleIpc(c)
    PROVE  \E n \in 0..2, command \in Nat : Answering(c, n, command)
<1>1. PICK n \in 0..2 :
          LET objects == [i \in 1..n |-> made + i]
              one  == InsertHandle(table, drawn, Service, made + 1)
              two  == InsertHandle(one.table, one.drawn, Service, made + 2)
              done == CASE n = 0 -> [table |-> table, drawn |-> drawn] [] n = 1 -> one [] n = 2 -> two
              moved == HandleParam(TRUE, FALSE, [i \in 1..n |-> drawn[Service] + i])
          IN  /\ made + n <= MaxObjects
              /\ table' = done.table /\ drawn' = done.drawn
              /\ ipcData' = [ipcData EXCEPT ![Service] =
                     Over(@, ResponseWords(HeaderCode(@[1]).command, IF n = 1 THEN <<7, 0>> ELSE <<>>,
                                           IF n = 0 THEN <<>> ELSE <<moved>>))]
              /\ expected' = [expected EXCEPT ![c] = objects]
              /\ made' = made + n
  BY DEF HandleIpc
<1>2. PICK command \in Nat : command = HeaderCode(ipcData[Service][1]).command
  <2>1. ipcData[Service] \in Seq(Nat) /\ Len(ipcData[Service]) = BufferWords
    BY TypesOfClient
  <2>2. PICK w \in Nat : w = ipcData[Service][1]
    BY <2>1, Constants
  <2>3. w \div 2^16 \in Nat
    OBVIOUS
  <2>4. QED
    BY <2>2, <2>3 DEF HeaderCode
<1>a. PICK one : one = InsertHandle(table, drawn, Service, made + 1)
  OBVIOUS
<1>b. PICK two : two = InsertHandle(one.table, one.drawn, Service, made + 2)
  OBVIOUS
<1>c. PICK moved : moved = MovedHandles(drawn[Service], n)
  OBVIOUS
<1>d. PICK done : done = CASE n = 0 -> [table |-> table, drawn |-> drawn] [] n = 1 -> one [] n = 2 -> two
  OBVIOUS
<1>e. /\ made + n <= MaxObjects
      /\ table' = done.table /\ drawn' = done.drawn
      /\ ipcData' = [ipcData EXCEPT ![Service] =
             Over(@, ResponseWords(command, IF n = 1 THEN <<7, 0>> ELSE <<>>,
                                   IF n = 0 THEN <<>> ELSE <<moved>>))]
      /\ expected' = [expected EXCEPT ![c] = [i \in 1..n |-> made + i]]
      /\ made' = made + n
  BY <1>1, <1>2, <1>a, <1>b, <1>c, <1>d, Zenon DEF MovedHandles
<1>3. CASE n = 0
  <2>1. done = [table |-> table, drawn |-> drawn]
    BY <1>d, <1>3
  <2>2. table' = table /\ drawn' = drawn
    BY <1>e, <2>1
  <2>3. n # 1
    BY <1>3
  <2>4. ipcData' = [ipcData EXCEPT ![Service] = Over(@, ResponseWords(command, <<>>, <<>>))]
    BY <1>e, <1>3, <2>3, Zenon
  <2>5. QED
    BY <1>3, <1>e, <2>2, <2>4, Zenon DEF Answering
<1>4. CASE n = 1
  <2>1. done = one
    BY <1>d, <1>4
  <2>2. n # 0
    BY <1>4
  <2>4. ipcData' = [ipcData EXCEPT ![Service] = Over(@, ResponseWords(command, <<7, 0>>, <<moved>>))]
    BY <1>e, <1>4, <2>2, Zenon
  <2>5. QED
    BY <1>4, <1>a, <1>c, <1>e, <2>1, <2>4, Zenon DEF Answering
<1>5. CASE n = 2
  <2>1. done = two
    BY <1>d, <1>5
  <2>2. n # 0 /\ n # 1
    BY <1>5
  <2>4. ipcData' = [ipcData EXCEPT ![Service] = Over(@, ResponseWords(command, <<>>, <<moved>>))]
    BY <1>e, <2>2, Zenon
  <2>5. QED
    BY <1>5, <1>a, <1>b, <1>c, <1>e, <2>1, <2>4, Zenon DEF Answering
<1>6. n = 0 \/ n = 1 \/ n = 2
  OBVIOUS
<1>7. QED
  BY <1>3, <1>4, <1>5, <1>6, Zenon

LEMMA ListOfMoved ==
    ASSUME NEW k \in Nat, NEW n \in 1..2
    PROVE  \E y \in Param : /\ y = MovedHandles(k, n) /\ MovedList(y)
                            /\ n = 1 => y.handles = <<k + 1>>
                            /\ n = 2 => y.handles = <<k + 1, k + 2>>
<1>1. PICK hs : hs = [i \in 1..n |-> k + i]
  OBVIOUS
<1>2. hs \in Seq(Nat) /\ Len(hs) = n /\ Len(hs) \in 1..2
  <2>1. n \in Nat /\ \A i \in 1..n : k + i \in Nat
    OBVIOUS
  <2>2. QED
    BY <1>1, <2>1
<1>3. n = 1 => hs = <<k + 1>>
  BY <1>1
<1>4. n = 2 => hs = <<k + 1, k + 2>>
  BY <1>1
<1>5. PICK y : y = HandleParam(TRUE, FALSE, hs)
  OBVIOUS
<1>a. y \in Param /\ y.moved = TRUE /\ y.calling = FALSE /\ y.handles = hs
  BY <1>2, <1>5 DEF HandleParam, Param
<1>6. MovedList(y) /\ y.handles = hs /\ y \in Param
  BY <1>2, <1>a DEF MovedList
<1>7. QED
  <2>1. y = MovedHandles(k, n)
    BY <1>1, <1>5 DEF MovedHandles
  <2>2. QED
    BY <1>3, <1>4, <1>6, <2>1, Zenon

LEMMA AnswerGiven ==
    ASSUME Types, NEW c \in Client, NEW n \in 0..2, NEW command \in Nat, Answering(c, n, command)
    PROVE  \E e : Answered(c, n, e)
<1>1. /\ Tables(table, drawn) /\ made \in Nat /\ drawn[Service] \in Nat /\ Service \in Process
      /\ ipcData[Service] \in Seq(Nat) /\ Len(ipcData[Service]) = BufferWords /\ MaxObjects \in Nat
  BY TypesOfClient, Constants
<1>2. PICK k \in Nat : k = drawn[Service]
  BY <1>1
<1>3. PICK m \in Nat : m = made
  BY <1>1
<1>4. PICK w \in Seq(Nat) : w = ipcData[Service] /\ Len(w) = BufferWords
  BY <1>1
<1>5. PICK e : e = [i \in 1..n |-> m + i]
  OBVIOUS
<1>6. PICK one : one = InsertHandle(table, drawn, Service, m + 1)
  OBVIOUS
<1>7. PICK two : two = InsertHandle(one.table, one.drawn, Service, m + 2)
  OBVIOUS
<1>8. /\ made + n <= MaxObjects /\ made' = made + n
      /\ expected' = [expected EXCEPT ![c] = e]
  BY <1>3, <1>5, Zenon DEF Answering
<1>9. made' <= MaxObjects
  BY <1>8
<1>10. <<>> \in Seq(Nat) /\ <<7, 0>> \in Seq(Nat) /\ Len(<<>>) <= 2 /\ Len(<<7, 0>>) <= 2
  OBVIOUS
<1>11. CASE n = 0
  <2>1. PICK o : o = Over(w, ResponseWords(command, <<>>, <<>>))
    OBVIOUS
  <2>2. n # 1 /\ n # 2
    BY <1>11
  <2>3. table' = table /\ drawn' = drawn /\ ipcData' = [ipcData EXCEPT ![Service] = o]
    BY <1>4, <2>1, <2>2, Zenon DEF Answering
  <2>4. InBuffer(o, TRUE, command, << 0 >>, <<>>, <<>>)
    BY <1>4, <1>10, <2>1, EmptyWritten, Zenon
  <2>5. o \in Seq(Nat) /\ Len(o) = BufferWords
    BY <2>4 DEF InBuffer
  <2>6. e = <<>> /\ e \in Expected
    BY <1>5, <1>11 DEF Expected
  <2>7. HandledOf(table', o, e)
    BY <1>10, <2>4, <2>6, Zenon DEF HandledOf, EmptyAnswer
  <2>8. drawn'[Service] = drawn[Service] + n
    BY <1>1, <1>11, <2>3
  <2>9. Tables(table', drawn') /\ \A q \in Process : q # Service => table'[q] = table[q]
    BY <1>1, <2>3
  <2>10. QED
    BY <1>8, <1>9, <2>3, <2>5, <2>6, <2>7, <2>8, <2>9, Zenon DEF Answered
<1>12. CASE n = 1
  <2>1. PICK y \in Param : /\ y = MovedHandles(k, n) /\ MovedList(y)
                           /\ n = 1 => y.handles = <<k + 1>>
                           /\ n = 2 => y.handles = <<k + 1, k + 2>>
    <3>1. n \in 1..2
      BY <1>12
    <3>2. QED
      BY <3>1, ListOfMoved
  <2>2. PICK o : o = Over(w, ResponseWords(command, <<7, 0>>, <<y>>))
    OBVIOUS
  <2>3. n # 0 /\ n # 2
    BY <1>12
  <2>4. /\ table' = one.table /\ drawn' = one.drawn
        /\ ipcData' = [ipcData EXCEPT ![Service] = o]
    BY <1>2, <1>3, <1>4, <1>6, <2>1, <2>2, <2>3, Zenon DEF Answering
  <2>5. InBuffer(o, TRUE, command, << 0 >>, <<7, 0>>, <<y>>)
    BY <1>4, <1>10, <2>1, <2>2, ListWritten, Zenon
  <2>6. o \in Seq(Nat) /\ Len(o) = BufferWords
    BY <2>5 DEF InBuffer
  <2>7. e = <<m + 1>>
    BY <1>5, <1>12
  <2>8. m + 1 <= MaxObjects
    BY <1>3, <1>8, <1>12
  <2>9. MovedList(y) /\ y.handles = <<k + 1>>
    BY <1>12, <2>1, Zenon
  <2>a. Gives(one, k + 1, <<m + 1>>, y)
    BY <1>1, <1>2, <1>6, <2>8, <2>9, OneAnswered, Zenon
  <2>10. /\ Tables(one.table, one.drawn) /\ one.drawn[Service] = k + 1
         /\ \A q \in Process : q # Service => one.table[q] = table[q]
         /\ e \in Expected /\ Means(e, one.table, Service, y)
    BY <2>7, <2>a, Zenon DEF Gives
  <2>11. HandledOf(table', o, e)
    BY <1>10, <2>1, <2>4, <2>5, <2>10, Zenon DEF HandledOf, ListAnswer
  <2>12. drawn'[Service] = drawn[Service] + n
    BY <1>2, <1>12, <2>4, <2>10, Zenon
  <2>13. QED
    BY <1>8, <1>9, <2>4, <2>6, <2>10, <2>11, <2>12, Zenon DEF Answered
<1>13. CASE n = 2
  <2>1. PICK y \in Param : /\ y = MovedHandles(k, n) /\ MovedList(y)
                           /\ n = 1 => y.handles = <<k + 1>>
                           /\ n = 2 => y.handles = <<k + 1, k + 2>>
    <3>1. n \in 1..2
      BY <1>13
    <3>2. QED
      BY <3>1, ListOfMoved
  <2>2. PICK o : o = Over(w, ResponseWords(command, <<>>, <<y>>))
    OBVIOUS
  <2>3. n # 0 /\ n # 1
    BY <1>13
  <2>4. /\ table' = two.table /\ drawn' = two.drawn
        /\ ipcData' = [ipcData EXCEPT ![Service] = o]
    BY <1>2, <1>3, <1>4, <1>6, <1>7, <2>1, <2>2, <2>3, Zenon DEF Answering
  <2>5. InBuffer(o, TRUE, command, << 0 >>, <<>>, <<y>>)
    BY <1>4, <1>10, <2>1, <2>2, ListWritten, Zenon
  <2>6. o \in Seq(Nat) /\ Len(o) = BufferWords
    BY <2>5 DEF InBuffer
  <2>7. e = <<m + 1, m + 2>>
    BY <1>5, <1>13
  <2>8. m + 2 <= MaxObjects
    BY <1>3, <1>8, <1>13
  <2>9. MovedList(y) /\ y.handles = <<k + 1, k + 2>>
    BY <1>13, <2>1, Zenon
  <2>a. Gives(two, k + 2, <<m + 1, m + 2>>, y)
    BY <1>1, <1>2, <1>6, <1>7, <2>8, <2>9, TwoAnswered, Zenon
  <2>10. /\ Tables(two.table, two.drawn) /\ two.drawn[Service] = k + 2
         /\ \A q \in Process : q # Service => two.table[q] = table[q]
         /\ e \in Expected /\ Means(e, two.table, Service, y)
    BY <2>7, <2>a, Zenon DEF Gives
  <2>11. HandledOf(table', o, e)
    BY <1>10, <2>1, <2>4, <2>5, <2>10, Zenon DEF HandledOf, ListAnswer
  <2>12. drawn'[Service] = drawn[Service] + n
    BY <1>2, <1>13, <2>4, <2>10, Zenon
  <2>13. QED
    BY <1>8, <1>9, <2>4, <2>6, <2>10, <2>11, <2>12, Zenon DEF Answered
<1>14. n = 0 \/ n = 1 \/ n = 2
  OBVIOUS
<1>15. QED
  BY <1>11, <1>12, <1>13, <1>14, Zenon

\* Nobody else's request is with the service.
LEMMA OthersWait ==
    ASSUME Inv, NEW c \in Client, phase[c] \in {"received", "handled"}
    PROVE  serving = c /\ \A d \in Client : d # c => phase[d] \notin {"received", "handled"}
<1>1. \A d \in Client : phase[d] \in {"received", "handled"} => serving = d
  BY DEF Inv, CallOK
<1>2. QED
  BY <1>1

LEMMA Handled ==
    ASSUME Inv, NEW c \in Client, HandleIpc(c)
    PROVE  Inv'
<1>1. Types /\ ServiceDraws /\ \A d \in Client : CallOK(d)
  BY DEF Inv
<1>2. /\ c \in Process /\ c # Service /\ Service \in Process /\ made \in Nat /\ drawn[Service] \in Nat
      /\ MaxObjects \in Nat
  BY <1>1, TypesOfClient, Constants
<1>3. /\ phase[c] = "received" /\ phase' = [phase EXCEPT ![c] = "handled"]
      /\ calls' = calls /\ serving' = serving
  BY DEF HandleIpc, Goto
<1>4. PICK n \in 0..2, command \in Nat : Answering(c, n, command)
  BY <1>1, HandleIpcAnswers
<1>5. PICK e : Answered(c, n, e)
  BY <1>1, <1>4, AnswerGiven
<1>6. /\ Tables(table', drawn') /\ drawn'[Service] = drawn[Service] + n
      /\ \A q \in Process : q # Service => table'[q] = table[q]
      /\ made' = made + n /\ made' <= MaxObjects
      /\ expected' = [expected EXCEPT ![c] = e] /\ e \in Expected
  BY <1>5 DEF Answered
<1>7. PICK o \in Seq(Nat) : /\ Len(o) = BufferWords /\ ipcData' = [ipcData EXCEPT ![Service] = o]
                            /\ HandledOf(table', o, e)
  BY <1>5, Zenon DEF Answered
<1>8. ipcData \in [Process -> Seq(Nat)] /\ \A r \in Process : Len(ipcData[r]) = BufferWords
  BY <1>1 DEF Types, Buffers
<1>9. /\ ipcData' \in [Process -> Seq(Nat)] /\ ipcData'[Service] = o
      /\ \A r \in Process : r # Service => ipcData'[r] = ipcData[r]
  BY <1>2, <1>7, <1>8
<1>10. Buffers'
  <2>1. drawn' \in [Process -> Nat]
    BY <1>6 DEF Tables
  <2>2. QED
    BY <1>7, <1>8, <1>9, <2>1 DEF Buffers
<1>11. /\ phase' \in [Client -> Phase] /\ phase'[c] = "handled"
       /\ \A d \in Client : d # c => phase'[d] = phase[d]
  BY <1>1, <1>3 DEF Types, Phase
<1>12. /\ expected' \in [Client -> Expected] /\ expected'[c] = e
       /\ \A d \in Client : d # c => expected'[d] = expected[d]
  BY <1>1, <1>6 DEF Types
<1>13. made' \in 0..MaxObjects
  BY <1>2, <1>6
<1>14. Types'
  BY <1>1, <1>3, <1>6, <1>10, <1>11, <1>12, <1>13 DEF Types
<1>15. serving = c /\ \A d \in Client : d # c => phase[d] \notin {"received", "handled"}
  BY <1>3, OthersWait
<1>16. ASSUME NEW d \in Client PROVE CallOK(d)'
  <2>1. CASE d = c
    <3>1. HandledOf(table', ipcData'[Service], expected'[c])
      BY <1>7, <1>9, <1>12, Zenon
    <3>2. QED
      BY <1>3, <1>11, <1>15, <2>1, <3>1 DEF CallOK
  <2>2. CASE d # c
    <3>1. table'[d] = table[d] /\ ipcData'[d] = ipcData[d]
      BY <1>6, <1>9, Constants
    <3>2. QED
      BY <1>1, <1>3, <1>11, <1>12, <1>15, <2>2, <3>1, OtherCall
  <2>3. QED
    BY <2>1, <2>2
<1>17. ServiceDraws'
  <2>1. ASSUME NEW d \in Client PROVE Taken(d)' = Taken(d)
    <3>1. CASE d = c
      BY <1>3, <1>11, <3>1 DEF Taken
    <3>2. CASE d # c
      BY <1>3, <1>11, <3>2 DEF Taken
    <3>3. QED
      BY <3>1, <3>2
  <2>2. drawn'[Service] \in Nat /\ drawn'[Service] <= drawn[Service] + n /\ made' = made + n /\ n \in Nat
    BY <1>2, <1>6
  <2>3. QED
    BY <1>1, <1>2, <2>1, <2>2, NothingReceived
<1>18. QED
  BY <1>14, <1>16, <1>17 DEF Inv

\* A response without handles arrives.
LEMMA EmptyArrives ==
    ASSUME Types, NEW c \in Client, TranslateIpc(Service, c, TRUE),
           NEW e, EmptyAnswer(ipcData[Service], e)
    PROVE  table' = table /\ drawn' = drawn /\ Lands(c, TRUE, e)
<1>1. c \in Process /\ Service \in Process /\ Buffers
  BY TypesOfClient DEF Types
<1>2. PICK command \in Nat, normals \in Seq(Nat) :
         /\ Len(normals) <= 2 /\ e = <<>>
         /\ InBuffer(ipcData[Service], TRUE, command, << 0 >>, normals, <<>>)
  BY Zenon DEF EmptyAnswer
<1>3. /\ table' = table /\ drawn' = drawn
      /\ \E o : /\ ipcData' = [ipcData EXCEPT ![c] = o]
                /\ InBuffer(o, TRUE, command, << 0 >>, normals, <<>>)
  BY <1>1, <1>2, EmptyTranslated, Zenon
<1>4. PICK o : /\ ipcData' = [ipcData EXCEPT ![c] = o]
               /\ InBuffer(o, TRUE, command, << 0 >>, normals, <<>>)
  BY <1>3
<1>5. PICK hs \in Seq(Nat) : hs = <<>> /\ Len(hs) = 0
  BY ListNone, Zenon
<1>6. PICK f \in Expected : f = <<>> /\ Len(f) = 0
  <2>1. <<>> \in Expected /\ Len(<<>>) = 0
    BY DEF Expected
  <2>2. QED
    BY <2>1, Zenon
<1>7. Match(table', c, hs, f)
  BY <1>5, <1>6 DEF Match
<1>8. HandlesOf(<<>>) = hs
  BY <1>5, HandlesOfNone, Zenon
<1>9. NamesOf(table', c, o, TRUE) = f /\ o \in Seq(Nat) /\ Len(o) = BufferWords
  BY <1>4, <1>7, <1>8, NamesMatch, Zenon
<1>10. QED
  BY <1>2, <1>3, <1>4, <1>6, <1>9, Zenon DEF Lands, ReadBy

\* ... and one with handles.
LEMMA ListArrives ==
    ASSUME Types, NEW c \in Client, TranslateIpc(Service, c, TRUE),
           NEW e, ListAnswer(table, ipcData[Service], e)
    PROVE  /\ Tables(table', drawn') /\ Draws(table, drawn, table', drawn', 2, Service, c)
           /\ Lands(c, TRUE, e)
<1>1. c \in Process /\ Service \in Process /\ c # Service /\ Buffers /\ Tables(table, drawn)
  BY TypesOfClient DEF Types
<1>2. PICK y \in Param, command \in Nat, normals \in Seq(Nat) :
         /\ MovedList(y) /\ Len(normals) <= 2
         /\ InBuffer(ipcData[Service], TRUE, command, << 0 >>, normals, <<y>>)
         /\ e \in Expected /\ Means(e, table, Service, y)
  BY Zenon DEF ListAnswer
<1>3. y.calling = FALSE /\ Len(y.handles) \in 1..2
  BY <1>2 DEF MovedList
<1>4. \E b : ResponseMoves(b, command, normals, y, Service, c)
  BY <1>1, <1>2, <1>3, ResponseTranslated, Zenon
<1>5. PICK b : ResponseMoves(b, command, normals, y, Service, c)
  BY <1>4
<1>6. /\ Tables(table', drawn') /\ Draws(table, drawn, table', drawn', Len(y.handles), Service, c)
      /\ Lands(c, TRUE, e)
  BY <1>1, <1>2, <1>5, ResponseArrives, Zenon
<1>7. Draws(table, drawn, table', drawn', 2, Service, c)
  <2>1. PICK n \in 1..2 : n = Len(y.handles)
    BY <1>3
  <2>2. PICK i \in Nat : i = drawn[c]
    BY <1>1 DEF Tables
  <2>3. PICK j \in Nat : j = drawn'[c]
    BY <1>1, <1>6 DEF Tables
  <2>4. i <= j /\ j <= i + n
    BY <1>6, <2>1, <2>2, <2>3, Zenon DEF Draws
  <2>5. i <= j /\ j <= i + 2
    BY <2>4
  <2>6. QED
    BY <1>6, <2>2, <2>3, <2>5, Zenon DEF Draws
<1>8. QED
  BY <1>6, <1>7

LEMMA Replied ==
    ASSUME Inv, NEW c \in Client, Reply(c)
    PROVE  Inv'
<1>1. Types /\ ServiceDraws /\ \A d \in Client : CallOK(d)
  BY DEF Inv
<1>2. /\ c \in Process /\ c # Service /\ Service \in Process /\ made \in Nat /\ drawn[Service] \in Nat
      /\ Tables(table, drawn)
  BY <1>1, TypesOfClient
<1>3. /\ phase[c] = "handled" /\ TranslateIpc(Service, c, TRUE) /\ serving' = NoClient
      /\ phase' = [phase EXCEPT ![c] = "answered"]
      /\ made' = made /\ calls' = calls /\ expected' = expected
  BY DEF Reply, Goto
<1>4. PICK e : e = expected[c]
  OBVIOUS
<1>5. HandledOf(table, ipcData[Service], e)
  BY <1>1, <1>3, <1>4 DEF CallOK
<1>6. /\ Tables(table', drawn') /\ drawn'[Service] = drawn[Service] /\ Lands(c, TRUE, e)
      /\ \A d \in Client : d # c => table'[d] = table[d]
  <2>1. CASE EmptyAnswer(ipcData[Service], e)
    <3>1. table' = table /\ drawn' = drawn /\ Lands(c, TRUE, e)
      BY <1>1, <1>3, <2>1, EmptyArrives
    <3>2. QED
      BY <1>2, <3>1
  <2>2. CASE ListAnswer(table, ipcData[Service], e)
    <3>1. /\ Tables(table', drawn') /\ Draws(table, drawn, table', drawn', 2, Service, c)
          /\ Lands(c, TRUE, e)
      BY <1>1, <1>3, <2>2, ListArrives
    <3>2. drawn'[Service] = drawn[Service] /\ \A d \in Client : d # c => table'[d] = table[d]
      BY <1>2, <3>1, Constants DEF Draws
    <3>3. QED
      BY <3>1, <3>2
  <2>3. QED
    BY <1>5, <2>1, <2>2 DEF HandledOf
<1>7. PICK o \in Seq(Nat) : /\ ipcData' = [ipcData EXCEPT ![c] = o] /\ Len(o) = BufferWords
                            /\ ReadBy(table', c, o, TRUE, e)
  BY <1>6, Zenon DEF Lands
<1>8. ipcData \in [Process -> Seq(Nat)] /\ \A r \in Process : Len(ipcData[r]) = BufferWords
  BY <1>1 DEF Types, Buffers
<1>9. /\ ipcData' \in [Process -> Seq(Nat)] /\ ipcData'[c] = o
      /\ \A r \in Process : r # c => ipcData'[r] = ipcData[r]
  BY <1>2, <1>7, <1>8
<1>10. Buffers'
  <2>1. drawn' \in [Process -> Nat]
    BY <1>6 DEF Tables
  <2>2. QED
    BY <1>7, <1>8, <1>9, <2>1 DEF Buffers
<1>11. /\ phase' \in [Client -> Phase] /\ phase'[c] = "answered"
       /\ \A d \in Client : d # c => phase'[d] = phase[d]
  BY <1>1, <1>3 DEF Types, Phase
<1>12. Types'
  BY <1>1, <1>3, <1>6, <1>10, <1>11 DEF Types
<1>13. \A d \in Client : d # c => phase[d] \notin {"received", "handled"}
  BY <1>3, OthersWait
<1>14. ASSUME NEW d \in Client PROVE CallOK(d)'
  <2>1. CASE d = c
    <3>1. ReadBy(table', c, ipcData'[c], TRUE, expected'[c])
      BY <1>3, <1>4, <1>7, <1>9, Zenon
    <3>2. QED
      BY <1>11, <2>1, <3>1 DEF CallOK
  <2>2. CASE d # c
    <3>1. table'[d] = table[d] /\ ipcData'[d] = ipcData[d]
      BY <1>6, <1>9, <2>2, Constants
    <3>2. QED
      BY <1>1, <1>3, <1>11, <1>13, <2>2, <3>1, OtherCall
  <2>3. QED
    BY <2>1, <2>2
<1>15. ServiceDraws'
  <2>1. ASSUME NEW d \in Client PROVE Taken(d)' = Taken(d)
    <3>1. CASE d = c
      BY <1>3, <1>11, <3>1 DEF Taken
    <3>2. CASE d # c
      BY <1>3, <1>11, <3>2 DEF Taken
    <3>3. QED
      BY <3>1, <3>2
  <2>2. drawn'[Service] \in Nat /\ drawn'[Service] <= drawn[Service] + 0 /\ made' = made + 0 /\ 0 \in Nat
    BY <1>2, <1>3, <1>6
  <2>3. QED
    BY <1>1, <1>2, <2>1, <2>2, NothingReceived
<1>16. QED
  BY <1>12, <1>14, <1>15 DEF Inv

LEMMA SameInv ==
    ASSUME Inv, UNCHANGED vars
    PROVE  Inv'
<1>1. /\ table' = table /\ drawn' = drawn /\ ipcData' = ipcData /\ made' = made /\ phase' = phase
      /\ calls' = calls /\ serving' = serving /\ expected' = expected
  BY DEF vars, ipcVars, serviceVars
<1>2. Types'
  BY <1>1 DEF Inv, Types, Buffers
<1>3. ASSUME NEW d \in Client PROVE CallOK(d)'
  BY <1>1, OtherCall DEF Inv
<1>4. ServiceDraws'
  BY <1>1 DEF Inv, ServiceDraws, CallsReceived, Taken
<1>5. QED
  BY <1>2, <1>3, <1>4 DEF Inv

-----------------------------------------------------------------------------
(* The invariant holds, and what it says *)

LEMMA NextInv == Inv /\ [Next]_vars => Inv'
<1> SUFFICES ASSUME Inv, [Next]_vars PROVE Inv'
  OBVIOUS
<1>1. CASE UNCHANGED vars
  BY <1>1, SameInv
<1>2. ASSUME NEW c \in Client, CreateObject(c) PROVE Inv'
  BY <1>2, Created
<1>3. ASSUME NEW c \in Client, CloseHandle(c) PROVE Inv'
  BY <1>3, Closed
<1>4. ASSUME NEW c \in Client, SendSyncRequest(c) PROVE Inv'
  BY <1>4, Sent
<1>5. ASSUME NEW c \in Client, Continue(c) PROVE Inv'
  BY <1>5, Continued
<1>6. ASSUME NEW c \in Client, Receive(c) PROVE Inv'
  BY <1>6, Received
<1>7. ASSUME NEW c \in Client, HandleIpc(c) PROVE Inv'
  BY <1>7, Handled
<1>8. ASSUME NEW c \in Client, Reply(c) PROVE Inv'
  BY <1>8, Replied
<1>9. QED
  BY <1>1, <1>2, <1>3, <1>4, <1>5, <1>6, <1>7, <1>8, Zenon DEF Next

\* The tables, buffers and messages are what every step of the two sides leaves; every
\* message in flight says what its sender meant, and the service's table does not
\* reach the pseudo-handle.
THEOREM InvHolds == Spec => []Inv
<1>1. Init => Inv
  BY InitInv
<1>2. Inv /\ [Next]_vars => Inv'
  BY NextInv
<1>3. QED
  BY <1>1, <1>2, PTL DEF Spec

LEMMA InvTypes == Inv => TypeOK
<1> SUFFICES ASSUME Inv PROVE TypeOK
  OBVIOUS
<1>1. Types
  BY DEF Inv
<1>2. Tables(table, drawn) /\ Buffers
  BY <1>1 DEF Types
<1>3. ASSUME NEW p \in Process
      PROVE  DOMAIN table[p] \subseteq 1..drawn[p] /\ Range(table[p]) \subseteq Object
  <2>1. HandleTable(table[p], drawn[p])
    BY <1>2 DEF Tables
  <2>2. QED
    BY <2>1 DEF HandleTable, Range
<1>4. \A p \in Process : ipcData[p] \in Seq(Nat) /\ Len(ipcData[p]) = BufferWords
  BY <1>2 DEF Buffers
<1>5. QED
  BY <1>1, <1>3, <1>4 DEF Types, TypeOK, Expected

LEMMA InvArrive == Inv => HandlesArrive
<1> SUFFICES ASSUME Inv, NEW c \in Client
             PROVE  /\ phase[c] = "received" =>
                           NamesIn(table, Service, Handles(Service, FALSE)) = expected[c]
                    /\ phase[c] = "answered" => NamesIn(table, c, Handles(c, TRUE)) = expected[c]
  BY DEF HandlesArrive, NamesIn
<1>1. CallOK(c)
  BY DEF Inv
<1>2. ASSUME NEW p, NEW reply
      PROVE  HandlesOf(Read(ipcData[p], reply).params) = Handles(p, reply)
  BY DEF HandlesOf, Handles
<1>3. CASE phase[c] = "received"
  <2>1. ReadBy(table, Service, ipcData[Service], FALSE, expected[c])
    BY <1>1, <1>3 DEF CallOK
  <2>2. HandlesOf(Read(ipcData[Service], FALSE).params) = Handles(Service, FALSE)
    BY <1>2
  <2>3. NamesIn(table, Service, Handles(Service, FALSE)) = expected[c]
    BY <2>1, <2>2, Zenon DEF ReadBy, NamesOf
  <2>4. QED
    BY <1>3, <2>3
<1>4. CASE phase[c] = "answered"
  <2>1. ReadBy(table, c, ipcData[c], TRUE, expected[c])
    BY <1>1, <1>4 DEF CallOK
  <2>2. HandlesOf(Read(ipcData[c], TRUE).params) = Handles(c, TRUE)
    BY <1>2
  <2>3. NamesIn(table, c, Handles(c, TRUE)) = expected[c]
    BY <2>1, <2>2, Zenon DEF ReadBy, NamesOf
  <2>4. QED
    BY <1>4, <2>3
<1>5. QED
  BY <1>3, <1>4

\* ObjectTable and translate_ipc keep the types of the tables and the buffers.
THEOREM TransferTypes == Spec => []TypeOK
<1>1. Inv => TypeOK
  BY InvTypes
<1>2. QED
  BY <1>1, InvHolds, PTL

\* translate_handle: every handle of a message names to its reader the object that its
\* sender meant, whatever the other threads of the sender have closed meanwhile.
THEOREM TransferArrives == Spec => []HandlesArrive
<1>1. Inv => HandlesArrive
  BY InvArrive
<1>2. QED
  BY <1>1, InvHolds, PTL

-----------------------------------------------------------------------------
(* References *)

\* The handles of the parameters ps that are copied and name o.
Copies(t, p, ps, o) ==
    {x \in (1..Len(ps)) \X (1..BufferWords) :
        /\ ~ps[x[1]].moved
        /\ x[2] <= Len(ps[x[1]].handles)
        /\ Named(t, p, ps[x[1]].handles[x[2]]) = o}

\* The j-th handle of the parameter x is one of them.
CopyAt(t, p, x, j, o) ==
    /\ ~x.moved /\ j <= Len(x.handles) /\ Named(t, p, x.handles[j]) = o

\* A is the set of the copies, and B that of the pairs.
IsCopies(A, t, p, ps, o) ==
    /\ \A i, j : <<i, j>> \in A <=>
           i \in 1..Len(ps) /\ j \in 1..BufferWords /\ CopyAt(t, p, ps[i], j, o)
    /\ \A x \in A : \E i, j : x = <<i, j>>

IsPairs(B, t, p, hs, n, L, o) ==
    /\ \A i, j : <<i, j>> \in B <=> i = L /\ j \in 1..n /\ Named(t, p, hs[j]) = o
    /\ \A x \in B : \E i, j : x = <<i, j>>

LEMMA CopiesMember ==
    ASSUME NEW t, NEW p, NEW ps, NEW o
    PROVE  IsCopies(Copies(t, p, ps, o), t, p, ps, o)
<1>1. ASSUME NEW i, NEW j
      PROVE  <<i, j>> \in Copies(t, p, ps, o) <=>
                  i \in 1..Len(ps) /\ j \in 1..BufferWords /\ CopyAt(t, p, ps[i], j, o)
  BY DEF Copies, CopyAt
<1>2. ASSUME NEW x \in Copies(t, p, ps, o) PROVE \E i, j : x = <<i, j>>
  <2>1. x \in (1..Len(ps)) \X (1..BufferWords)
    BY DEF Copies
  <2>2. QED
    BY <2>1
<1>3. QED
  BY <1>1, <1>2, Zenon DEF IsCopies

LEMMA PairsMember ==
    ASSUME NEW t, NEW p, NEW hs, NEW n, NEW L, NEW o
    PROVE  IsPairs(Pairs(t, p, hs, n, L, o), t, p, hs, n, L, o)
<1>1. ASSUME NEW i, NEW j
      PROVE  <<i, j>> \in Pairs(t, p, hs, n, L, o) <=> i = L /\ j \in 1..n /\ Named(t, p, hs[j]) = o
  BY DEF Pairs
<1>2. ASSUME NEW x \in Pairs(t, p, hs, n, L, o) PROVE \E i, j : x = <<i, j>>
  <2>1. x \in {L} \X (1..n)
    BY DEF Pairs
  <2>2. QED
    BY <2>1
<1>3. QED
  BY <1>1, <1>2, Zenon DEF IsPairs

\* Sets of pairs are equal when they have the same pairs.
LEMMA SamePairs ==
    ASSUME NEW A, NEW B, \A x \in A : \E i, j : x = <<i, j>>, \A x \in B : \E i, j : x = <<i, j>>,
           \A i, j : <<i, j>> \in A <=> <<i, j>> \in B
    PROVE  A = B
<1>1. ASSUME NEW x \in A PROVE x \in B
  <2>1. PICK i, j : x = <<i, j>>
    OBVIOUS
  <2>2. QED
    BY <2>1
<1>2. ASSUME NEW x \in B PROVE x \in A
  <2>1. PICK i, j : x = <<i, j>>
    OBVIOUS
  <2>2. QED
    BY <2>1
<1>3. QED
  BY <1>1, <1>2

\* What is copied of the parameters of a request.
CopiedIn(t, p, y, j, o) ==
    /\ ~CopyAt(t, p, StaticBuffer, j, o)
    /\ CopyAt(t, p, CallingParam, j, o) <=> j \in 1..1 /\ Named(t, p, <<CurrentProcess>>[j]) = o
    /\ CopyAt(t, p, y, j, o) <=>
           ~y.moved /\ j \in 1..Len(y.handles) /\ Named(t, p, y.handles[j]) = o

LEMMA CopiedOfParams ==
    ASSUME NEW t, NEW p, NEW o, NEW y \in Param, Len(y.handles) \in 1..2, NEW j \in 1..BufferWords
    PROVE  CopiedIn(t, p, y, j, o)
<1>1. j \in Nat /\ j >= 1
  BY Constants
<1>2. StaticBuffer.handles = <<>> /\ Len(<<>>) = 0
  BY ParamsOfRequests
<1>3. ~CopyAt(t, p, StaticBuffer, j, o)
  <2>1. ~(j <= 0)
    BY <1>1
  <2>2. QED
    BY <1>2, <2>1 DEF CopyAt
<1>4. CallingParam.handles = <<CurrentProcess>> /\ ~CallingParam.moved /\ Len(<<CurrentProcess>>) = 1
  BY ParamsOfRequests
<1>5. j <= 1 <=> j \in 1..1
  BY <1>1
<1>6. CopyAt(t, p, CallingParam, j, o) <=> j \in 1..1 /\ Named(t, p, <<CurrentProcess>>[j]) = o
  BY <1>4, <1>5, Zenon DEF CopyAt
<1>7. j <= Len(y.handles) <=> j \in 1..Len(y.handles)
  <2>1. PICK n \in 1..2 : n = Len(y.handles)
    OBVIOUS
  <2>2. j <= n <=> j \in 1..n
    BY <1>1
  <2>3. QED
    BY <2>1, <2>2, Zenon
<1>8. CopyAt(t, p, y, j, o) <=>
           ~y.moved /\ j \in 1..Len(y.handles) /\ Named(t, p, y.handles[j]) = o
  BY <1>7, Zenon DEF CopyAt
<1>9. QED
  BY <1>3, <1>6, <1>8, Zenon DEF CopiedIn

\* The calling process is in the parameter L1 and the list y in L2.
Copied(t, p, ps, y, o, L1, L2) ==
    /\ y.moved => Copies(t, p, ps, o) = Pairs(t, p, <<CurrentProcess>>, 1, L1, o)
    /\ ~y.moved => Copies(t, p, ps, o) = Pairs(t, p, <<CurrentProcess>>, 1, L1, o)
                                             \cup Pairs(t, p, y.handles, Len(y.handles), L2, o)

LEMMA CopiesAtPlaces ==
    ASSUME NEW t, NEW p, NEW o, NEW y \in Param, Len(y.handles) \in 1..2,
           NEW ps, NEW m \in Nat, Len(ps) = m, NEW L1 \in 1..m, NEW L2 \in 1..m,
           ps[L1] = CallingParam, ps[L2] = y,
           \A i \in 1..m : i = L1 \/ i = L2 \/ ps[i] = StaticBuffer
    PROVE  Copied(t, p, ps, y, o, L1, L2)
<1>1. PICK A : A = Copies(t, p, ps, o)
  OBVIOUS
<1>A. IsCopies(A, t, p, ps, o)
  BY <1>1, CopiesMember
<1>2. PICK B : B = Pairs(t, p, <<CurrentProcess>>, 1, L1, o)
  OBVIOUS
<1>3. PICK C : C = Pairs(t, p, y.handles, Len(y.handles), L2, o)
  OBVIOUS
<1>4. \A j \in 1..Len(y.handles) : j \in 1..BufferWords
  <2>1. PICK n \in 1..2 : n = Len(y.handles)
    OBVIOUS
  <2>2. \A j \in 1..n : j \in 1..BufferWords
    BY Constants
  <2>3. QED
    BY <2>1, <2>2, Zenon
<1>5. \A j \in 1..1 : j \in 1..BufferWords
  BY Constants
<1>6. ASSUME NEW i, NEW j
      PROVE  <<i, j>> \in A <=>
                 \/ i = L1 /\ j \in 1..1 /\ Named(t, p, <<CurrentProcess>>[j]) = o
                 \/ i = L2 /\ ~y.moved /\ j \in 1..Len(y.handles) /\ Named(t, p, y.handles[j]) = o
  <2>1. <<i, j>> \in A <=> i \in 1..m /\ j \in 1..BufferWords /\ CopyAt(t, p, ps[i], j, o)
    BY <1>A, Zenon DEF IsCopies
  <2>2. CASE j \in 1..BufferWords
    <3>1. CopiedIn(t, p, y, j, o)
      BY <2>2, CopiedOfParams
    <3>2. QED
      BY <2>1, <2>2, <3>1, Zenon DEF CopiedIn
  <2>3. CASE j \notin 1..BufferWords
    BY <1>4, <1>5, <2>1, <2>3, Zenon
  <2>4. QED
    BY <2>2, <2>3
<1>7. /\ \A i, j : <<i, j>> \in B <=> i = L1 /\ j \in 1..1 /\ Named(t, p, <<CurrentProcess>>[j]) = o
      /\ \A x \in B : \E i, j : x = <<i, j>>
  BY <1>2, PairsMember DEF IsPairs
<1>8. /\ \A i, j : <<i, j>> \in C <=>
              i = L2 /\ j \in 1..Len(y.handles) /\ Named(t, p, y.handles[j]) = o
      /\ \A x \in C : \E i, j : x = <<i, j>>
  BY <1>3, PairsMember DEF IsPairs
<1>9. \A x \in A : \E i, j : x = <<i, j>>
  BY <1>A DEF IsCopies
<1>10. y.moved => A = B
  <2>1. HAVE y.moved
  <2>2. \A i, j : <<i, j>> \in A <=> <<i, j>> \in B
    BY <1>6, <1>7, <2>1, Zenon
  <2>3. QED
    BY <1>7, <1>9, <2>2, SamePairs
<1>11. ~y.moved => A = B \cup C
  <2>1. HAVE ~y.moved
  <2>2. PICK D : D = B \cup C
    OBVIOUS
  <2>3. \A i, j : <<i, j>> \in A <=> <<i, j>> \in D
    BY <1>6, <1>7, <1>8, <2>1, <2>2, Zenon
  <2>4. \A x \in D : \E i, j : x = <<i, j>>
    BY <1>7, <1>8, <2>2, Zenon
  <2>5. A = D
    BY <1>9, <2>3, <2>4, SamePairs
  <2>6. QED
    BY <2>2, <2>5
<1>12. QED
  BY <1>1, <1>2, <1>3, <1>10, <1>11, Zenon DEF Copied

LEMMA CopiesOfRequest ==
    ASSUME NEW t, NEW p, NEW o, NEW y \in Param, Len(y.handles) \in 1..2, NEW ps, Request(ps, y)
    PROVE  \E L1 \in Nat, L2 \in Nat : L1 # L2 /\ Copied(t, p, ps, y, o, L1, L2)
<1>1. PICK x \in Param : x = CallingParam
  BY ParamsOfRequests
<1>2. CASE ps = <<x, y>>
  <2>1. PICK g \in Seq(Param) : g = <<x, y>> /\ Len(g) = 2 /\ g[1] = x /\ g[2] = y
    BY ParamsTwo
  <2>2. 2 \in Nat /\ 1 \in 1..2 /\ 2 \in 1..2 /\ 1 # 2 /\ 1 \in Nat /\ \A i \in 1..2 : i = 1 \/ i = 2
    OBVIOUS
  <2>3. g[1] = CallingParam /\ g[2] = y /\ \A i \in 1..2 : i = 1 \/ i = 2 \/ g[i] = StaticBuffer
    BY <1>1, <2>1, <2>2, Zenon
  <2>4. Copied(t, p, g, y, o, 1, 2)
    BY <2>1, <2>2, <2>3, CopiesAtPlaces
  <2>5. QED
    BY <1>2, <2>1, <2>2, <2>4, Zenon
<1>3. CASE ps = <<StaticBuffer, x, y>>
  <2>1. PICK g \in Seq(Param) : g = ps /\ Len(g) = 3 /\ g[1] = StaticBuffer /\ g[2] = x /\ g[3] = y
    BY <1>3, BufferInFront
  <2>2. /\ 3 \in Nat /\ 2 \in 1..3 /\ 3 \in 1..3 /\ 2 # 3 /\ 2 \in Nat
        /\ \A i \in 1..3 : i = 1 \/ i = 2 \/ i = 3
    OBVIOUS
  <2>3. g[2] = CallingParam /\ g[3] = y /\ \A i \in 1..3 : i = 2 \/ i = 3 \/ g[i] = StaticBuffer
    BY <1>1, <2>1, <2>2, Zenon
  <2>4. Copied(t, p, g, y, o, 2, 3)
    BY <2>1, <2>2, <2>3, CopiesAtPlaces
  <2>5. QED
    BY <2>1, <2>2, <2>4, Zenon
<1>4. QED
  BY <1>1, <1>2, <1>3, Zenon DEF Request


\* The names of p's handles are all that the places of a list depend on.
LEMMA PairsOfNamed ==
    ASSUME NEW t, NEW T, NEW p, NEW hs, NEW n, NEW L, NEW o, \A x : Named(T, p, x) = Named(t, p, x)
    PROVE  Pairs(T, p, hs, n, L, o) = Pairs(t, p, hs, n, L, o)
<1>1. PICK A : A = Pairs(T, p, hs, n, L, o)
  OBVIOUS
<1>2. PICK B : B = Pairs(t, p, hs, n, L, o)
  OBVIOUS
<1>3. IsPairs(A, T, p, hs, n, L, o) /\ IsPairs(B, t, p, hs, n, L, o)
  BY <1>1, <1>2, PairsMember
<1>4. \A i, j : <<i, j>> \in A <=> <<i, j>> \in B
  BY <1>3, Zenon DEF IsPairs
<1>5. (\A x \in A : \E i, j : x = <<i, j>>) /\ (\A x \in B : \E i, j : x = <<i, j>>)
  BY <1>3, Zenon DEF IsPairs
<1>6. A = B
  BY <1>4, <1>5, SamePairs
<1>7. QED
  BY <1>1, <1>2, <1>6

\* The places in different parameters are different.
LEMMA PairsApart ==
    ASSUME NEW t, NEW p, NEW f, NEW g, NEW m, NEW n, NEW L1 \in Nat, NEW L2 \in Nat, L1 # L2, NEW o,
           IsFiniteSet(Pairs(t, p, f, m, L1, o)), IsFiniteSet(Pairs(t, p, g, n, L2, o))
    PROVE  Cardinality(Pairs(t, p, f, m, L1, o) \cup Pairs(t, p, g, n, L2, o))
               = Cardinality(Pairs(t, p, f, m, L1, o)) + Cardinality(Pairs(t, p, g, n, L2, o))
<1>1. PICK A : A = Pairs(t, p, f, m, L1, o)
  OBVIOUS
<1>2. PICK B : B = Pairs(t, p, g, n, L2, o)
  OBVIOUS
<1>3. IsPairs(A, t, p, f, m, L1, o) /\ IsPairs(B, t, p, g, n, L2, o)
  BY <1>1, <1>2, PairsMember
<1>4. A \cap B = {}
  <2>1. ASSUME NEW x \in A, x \in B PROVE FALSE
    <3>1. PICK i, j : x = <<i, j>>
      BY <1>3, Zenon DEF IsPairs
    <3>2. i = L1
      BY <1>3, <3>1, Zenon DEF IsPairs
    <3>3. i = L2
      BY <1>3, <2>1, <3>1, Zenon DEF IsPairs
    <3>4. QED
      BY <3>2, <3>3
  <2>2. QED
    BY <2>1
<1>5. IsFiniteSet(A) /\ IsFiniteSet(B)
  BY <1>1, <1>2
<1>6. PICK k \in Nat, l \in Nat : k = Cardinality(A) /\ l = Cardinality(B)
  BY <1>5, FS_CardinalityType
<1>7. Cardinality(A \cup B) = Cardinality(A) + Cardinality(B) - Cardinality(A \cap B)
  BY <1>5, FS_Union
<1>8. Cardinality(A \cap B) = 0
  BY <1>4, FS_EmptySet
<1>9. Cardinality(A \cup B) = k + l
  <2>1. Cardinality(A \cup B) = k + l - 0
    BY <1>6, <1>7, <1>8, Zenon
  <2>2. k + l - 0 = k + l
    OBVIOUS
  <2>3. QED
    BY <2>1, <2>2, Zenon
<1>10. QED
  BY <1>1, <1>2, <1>6, <1>9

\* Receiving a request keeps count of the references.
LEMMA RequestKept ==
    ASSUME NEW p \in Process, NEW q \in Process, Tables(table, drawn), NEW y \in Param,
           Len(y.handles) \in 1..2, NEW ps, Request(ps, y), NEW command, NEW b, NEW c,
           RequestMoves(b, c, command, y, p, q), NEW o \in Object
    PROVE  References(table', o) = References(table, o) + Cardinality(Copies(table, p, ps, o))
<1>1. Run(Begin(table, drawn), b, <<CurrentProcess>>, 1, FALSE, p, q)
  BY DEF RequestMoves
<1>2. Run(Begin(b.table, b.drawn), c, y.handles, Len(y.handles), y.moved, p, q)
  BY DEF RequestMoves
<1>3. table' = c.table
  BY DEF RequestMoves
<1>4. Tables(b.table, b.drawn)
  BY <1>1, RunHandles, Zenon
<1>5. \A x : Named(b.table, p, x) = Named(table, p, x)
  <2>1. \A x : Named(b.table, p, x) = Left(table, p, FALSE, <<CurrentProcess>>, 1, x)
    BY <1>1, BeginState DEF Run, Arrived
  <2>2. QED
    BY <2>1, Zenon DEF Left
<1>6. PICK L1 \in Nat, L2 \in Nat : L1 # L2 /\ Copied(table, p, ps, y, o, L1, L2)
  BY CopiesOfRequest, Zenon
<1>7. PICK B : B = Pairs(table, p, <<CurrentProcess>>, 1, L1, o)
  OBVIOUS
<1>8. PICK n : n = Len(y.handles)
  OBVIOUS
<1>9. PICK C : C = Pairs(table, p, y.handles, n, L2, o)
  OBVIOUS
<1>10. IsFiniteSet(B) /\ References(b.table, o) = References(table, o) + Cardinality(B)
  <2>1. PICK a : a = Begin(table, drawn)
    OBVIOUS
  <2>2. a.table = table
    BY <2>1, BeginState
  <2>3. Counted(a, b, <<CurrentProcess>>, 1, FALSE, p)
    BY <1>1, <2>1, Zenon DEF Run
  <2>4. /\ IsFiniteSet(Pairs(a.table, p, <<CurrentProcess>>, 1, L1, o))
        /\ References(b.table, o) =
               References(a.table, o) + Cardinality(Pairs(a.table, p, <<CurrentProcess>>, 1, L1, o))
    BY <2>3, Zenon DEF Counted
  <2>5. QED
    BY <1>7, <2>2, <2>4, Zenon
<1>11. /\ IsFiniteSet(C)
       /\ y.moved => References(c.table, o) = References(b.table, o)
       /\ ~y.moved => References(c.table, o) = References(b.table, o) + Cardinality(C)
  <2>1. PICK a : a = Begin(b.table, b.drawn)
    OBVIOUS
  <2>2. a.table = b.table
    BY <1>4, <2>1, BeginState
  <2>3. Counted(a, c, y.handles, n, y.moved, p)
    BY <1>2, <1>8, <2>1, Zenon DEF Run
  <2>4. PICK D : D = Pairs(a.table, p, y.handles, n, L2, o)
    OBVIOUS
  <2>5. /\ IsFiniteSet(D)
        /\ References(c.table, o) = IF y.moved THEN References(a.table, o)
                                    ELSE References(a.table, o) + Cardinality(D)
    BY <2>3, <2>4, Zenon DEF Counted
  <2>6. D = C
    <3>1. Pairs(b.table, p, y.handles, n, L2, o) = Pairs(table, p, y.handles, n, L2, o)
      BY <1>5, PairsOfNamed
    <3>2. QED
      BY <1>9, <2>2, <2>4, <3>1, Zenon
  <2>7. QED
    BY <2>2, <2>5, <2>6, Zenon
<1>12. PICK r \in Nat : r = References(table, o)
  BY ReferencesNat
<1>13. PICK k \in Nat : k = Cardinality(B)
  BY <1>10, FS_CardinalityType
<1>14. PICK l \in Nat : l = Cardinality(C)
  BY <1>11, FS_CardinalityType
<1>15. CASE y.moved
  <2>1. Copies(table, p, ps, o) = B
    BY <1>6, <1>7, <1>15, Zenon DEF Copied
  <2>2. QED
    BY <1>3, <1>10, <1>11, <1>15, <2>1, Zenon
<1>16. CASE ~y.moved
  <2>1. Copies(table, p, ps, o) = B \cup C
    BY <1>6, <1>7, <1>8, <1>9, <1>16, Zenon DEF Copied
  <2>2. Cardinality(B \cup C) = k + l
    BY <1>6, <1>7, <1>9, <1>10, <1>11, <1>13, <1>14, PairsApart
  <2>3. (r + k) + l = r + (k + l)
    OBVIOUS
  <2>4. References(c.table, o) = (r + k) + l
    BY <1>10, <1>11, <1>12, <1>13, <1>14, <1>16, Zenon
  <2>5. QED
    BY <1>3, <1>12, <2>1, <2>2, <2>3, <2>4, Zenon
<1>17. QED
  BY <1>15, <1>16

\* A response moves its handles, and copies none.
LEMMA NothingCopied ==
    ASSUME NEW t, NEW p, NEW o, NEW ps, ps = <<>> \/ \E y : ps = <<y>> /\ y.moved
    PROVE  Copies(t, p, ps, o) = {}
<1>1. \A i \in 1..Len(ps) : ps[i].moved
  <2>1. CASE ps = <<>>
    BY <2>1
  <2>2. CASE \E y : ps = <<y>> /\ y.moved
    <3>1. PICK y : ps = <<y>> /\ y.moved
      BY <2>2
    <3>2. ps[1] = y /\ \A i \in 1..Len(ps) : i = 1
      BY <3>1
    <3>3. QED
      BY <3>1, <3>2, Zenon
  <2>3. QED
    BY <2>1, <2>2
<1>2. PICK A : A = Copies(t, p, ps, o)
  OBVIOUS
<1>3. IsCopies(A, t, p, ps, o)
  BY <1>2, CopiesMember
<1>4. ASSUME NEW x \in A PROVE FALSE
  <2>1. PICK i, j : x = <<i, j>>
    BY <1>3, Zenon DEF IsCopies
  <2>2. i \in 1..Len(ps) /\ ~ps[i].moved
    BY <1>3, <2>1, Zenon DEF IsCopies, CopyAt
  <2>3. QED
    BY <1>1, <2>2, Zenon
<1>5. QED
  BY <1>2, <1>4

\* What p reads in its buffer.
LEMMA ParamsRead ==
    ASSUME NEW b, NEW reply, NEW command, NEW result, NEW normals, NEW ps,
           InBuffer(b, reply, command, result, normals, ps)
    PROVE  Read(b, reply).params = ps
<1>1. PICK m : m = Read(b, reply)
  OBVIOUS
<1>2. m = [command |-> command, result |-> result, normals |-> normals, params |-> ps]
  BY <1>1 DEF InBuffer, ReadsAs
<1>3. m.params = ps
  BY <1>2
<1>4. QED
  BY <1>1, <1>3

\* The message that p sends keeps count of the references.
Keeps(p, reply) ==
    \A o \in Object : References(table', o) = References(table, o)
                          + Cardinality(Copies(table, p, Read(ipcData[p], reply).params, o))

LEMMA ReceiveKeeps ==
    ASSUME Inv, NEW c \in Client, Receive(c)
    PROVE  Keeps(c, FALSE)
<1>1. Types /\ CallOK(c)
  BY DEF Inv
<1>2. c \in Process /\ Service \in Process /\ Tables(table, drawn)
  BY <1>1, TypesOfClient
<1>3. PICK y \in Param, command \in Nat :
         /\ y.calling = FALSE /\ Len(y.handles) \in 1..2 /\ Expects(expected[c], table, c, y)
         /\ \E ps : Request(ps, y) /\ InBuffer(ipcData[c], FALSE, command, <<>>, << 7 >>, ps)
         /\ \E b1, b2 : RequestMoves(b1, b2, command, y, c, Service)
  BY <1>1, RequestReceived, Zenon
<1>4. PICK ps : Request(ps, y) /\ InBuffer(ipcData[c], FALSE, command, <<>>, << 7 >>, ps)
  BY <1>3
<1>5. PICK b1, b2 : RequestMoves(b1, b2, command, y, c, Service)
  BY <1>3
<1>6. Read(ipcData[c], FALSE).params = ps
  BY <1>4, ParamsRead
<1>7. ASSUME NEW o \in Object
      PROVE  References(table', o) = References(table, o) + Cardinality(Copies(table, c, ps, o))
  BY <1>2, <1>3, <1>4, <1>5, RequestKept, Zenon
<1>8. QED
  BY <1>6, <1>7, Zenon DEF Keeps

LEMMA ReplyKeeps ==
    ASSUME Inv, NEW c \in Client, Reply(c)
    PROVE  Keeps(Service, TRUE)
<1>1. Types /\ CallOK(c)
  BY DEF Inv
<1>2. c \in Process /\ c # Service /\ Service \in Process /\ Tables(table, drawn) /\ Buffers
  BY <1>1, TypesOfClient DEF Types
<1>3. phase[c] = "handled" /\ TranslateIpc(Service, c, TRUE)
  BY DEF Reply
<1>4. HandledOf(table, ipcData[Service], expected[c])
  BY <1>1, <1>3 DEF CallOK
<1>5. \E ps : /\ Read(ipcData[Service], TRUE).params = ps /\ (ps = <<>> \/ \E y : ps = <<y>> /\ y.moved)
              /\ \A o \in Object : References(table', o) = References(table, o)
  <2>1. CASE EmptyAnswer(ipcData[Service], expected[c])
    <3>1. table' = table
      BY <1>1, <1>3, <2>1, EmptyArrives
    <3>2. PICK command, normals : InBuffer(ipcData[Service], TRUE, command, << 0 >>, normals, <<>>)
      BY <2>1, Zenon DEF EmptyAnswer
    <3>3. Read(ipcData[Service], TRUE).params = <<>>
      BY <3>2, ParamsRead
    <3>4. QED
      BY <3>1, <3>3, Zenon
  <2>2. CASE ListAnswer(table, ipcData[Service], expected[c])
    <3>1. PICK y \in Param, command \in Nat, normals \in Seq(Nat) :
             /\ MovedList(y) /\ Len(normals) <= 2
             /\ InBuffer(ipcData[Service], TRUE, command, << 0 >>, normals, <<y>>)
      BY <2>2, Zenon DEF ListAnswer
    <3>2. y.moved = TRUE /\ y.calling = FALSE /\ Len(y.handles) \in 1..2
      BY <3>1 DEF MovedList
    <3>3. \E b : ResponseMoves(b, command, normals, y, Service, c)
      BY <1>2, <1>3, <3>1, <3>2, ResponseTranslated, Zenon
    <3>4. PICK b : ResponseMoves(b, command, normals, y, Service, c)
      BY <3>3
    <3>5. PICK a : a = Begin(table, drawn) /\ a.table = table
      BY <1>2, BeginState
    <3>6. Counted(a, b, y.handles, Len(y.handles), y.moved, Service) /\ table' = b.table
      BY <3>4, <3>5, Zenon DEF ResponseMoves, Run
    <3>7. y.moved
      BY <3>2
    <3>8. \A o \in Object : References(b.table, o) = References(a.table, o)
      <4>1. 0 \in Nat
        OBVIOUS
      <4>2. QED
        BY <3>6, <3>7, <4>1, Zenon DEF Counted
    <3>9. Read(ipcData[Service], TRUE).params = <<y>>
      BY <3>1, ParamsRead
    <3>10. QED
      BY <3>5, <3>6, <3>7, <3>8, <3>9, Zenon
  <2>3. QED
    BY <1>4, <2>1, <2>2 DEF HandledOf
<1>6. PICK ps : /\ Read(ipcData[Service], TRUE).params = ps
                /\ (ps = <<>> \/ \E y : ps = <<y>> /\ y.moved)
                /\ \A o \in Object : References(table', o) = References(table, o)
  BY <1>5
<1>7. ASSUME NEW o \in Object
      PROVE  References(table', o) = References(table, o) + Cardinality(Copies(table, Service, ps, o))
  <2>1. Copies(table, Service, ps, o) = {}
    BY <1>6, NothingCopied
  <2>2. Cardinality({}) = 0
    BY FS_EmptySet
  <2>3. References(table, o) \in Nat
    BY <1>2, ReferencesNat
  <2>4. References(table, o) + 0 = References(table, o)
    BY <2>3
  <2>5. QED
    BY <1>6, <2>1, <2>2, <2>4, Zenon
<1>8. QED
  BY <1>6, <1>7, Zenon DEF Keeps

\* A message goes from a client when the service receives it, and to one when it replies.
LEMMA TransferSteps ==
    ASSUME Inv, [Next]_vars, NEW p \in Process, NEW q \in Process, Transfers(p, q)
    PROVE  \/ p \in Client /\ p # Service /\ Receive(p)
           \/ p = Service /\ q \in Client /\ Reply(q)
<1>1. phase \in [Client -> Phase]
  BY DEF Inv, Types
<1>2. \/ p \in Client /\ phase[p] = "asking" /\ phase'[p] = "received"
      \/ p = Service /\ q \in Client /\ phase[q] = "handled" /\ phase'[q] = "answered"
  BY DEF Transfers
<1>3. \A c \in Client : c # Service
  BY Constants
<1>4. PICK d \in Client : \/ CreateObject(d) \/ CloseHandle(d) \/ SendSyncRequest(d) \/ Continue(d)
                          \/ Receive(d) \/ HandleIpc(d) \/ Reply(d)
  <2>1. phase' # phase
    BY <1>2
  <2>2. ~(UNCHANGED vars)
    BY <2>1 DEF vars, serviceVars
  <2>3. QED
    BY <2>2 DEF Next
<1>5. CASE CreateObject(d) \/ CloseHandle(d)
  <2>1. phase' = phase
    BY <1>5, Zenon DEF CreateObject, CloseHandle
  <2>2. QED
    BY <1>2, <2>1
<1>6. CASE SendSyncRequest(d)
  <2>1. phase' = [phase EXCEPT ![d] = "asking"]
    BY <1>6, Zenon DEF SendSyncRequest, Goto
  <2>2. QED
    BY <1>1, <1>2, <2>1
<1>7. CASE Continue(d)
  <2>1. phase' = [phase EXCEPT ![d] = "idle"]
    BY <1>7, Zenon DEF Continue, Goto
  <2>2. QED
    BY <1>1, <1>2, <2>1
<1>8. CASE HandleIpc(d)
  <2>1. phase' = [phase EXCEPT ![d] = "handled"]
    BY <1>8, Zenon DEF HandleIpc, Goto
  <2>2. QED
    BY <1>1, <1>2, <2>1
<1>9. CASE Receive(d)
  <2>1. phase' = [phase EXCEPT ![d] = "received"]
    BY <1>9, Zenon DEF Receive, Goto
  <2>2. p \in Client /\ p = d
    BY <1>1, <1>2, <2>1
  <2>3. QED
    BY <1>3, <1>9, <2>2, Zenon
<1>10. CASE Reply(d)
  <2>1. phase' = [phase EXCEPT ![d] = "answered"]
    BY <1>10, Zenon DEF Reply, Goto
  <2>2. p = Service /\ q \in Client /\ q = d
    BY <1>1, <1>2, <2>1
  <2>3. QED
    BY <1>10, <2>2, Zenon
<1>11. QED
  BY <1>4, <1>5, <1>6, <1>7, <1>8, <1>9, <1>10, Zenon

LEMMA MessagesKeep ==
    Inv /\ [Next]_vars => \A p, q \in Process : Transfers(p, q) => Keeps(p, p = Service)
<1> SUFFICES ASSUME Inv, [Next]_vars, NEW p \in Process, NEW q \in Process, Transfers(p, q)
             PROVE  Keeps(p, p = Service)
  OBVIOUS
<1>1. CASE p \in Client /\ p # Service /\ Receive(p)
  <2>1. Keeps(p, FALSE)
    BY <1>1, ReceiveKeeps
  <2>2. QED
    BY <1>1, <2>1
<1>2. CASE p = Service /\ q \in Client /\ Reply(q)
  <2>1. Keeps(Service, TRUE)
    BY <1>2, ReplyKeeps
  <2>2. QED
    BY <1>2, <2>1
<1>3. QED
  BY <1>1, <1>2, TransferSteps

\* translate_handle: a handle that is moved neither loses its object nor leaves a second
\* reference behind, and each copy adds one reference.
THEOREM TransferReferences == Spec => ReferencesKept
<1>1. Inv /\ [Next]_vars =>
          [\A p, q \in Process : Transfers(p, q) =>
              LET params == Read(ipcData[p], p = Service).params
                  copies(o) == {x \in (1..Len(params)) \X (1..BufferWords) :
                                   /\ ~params[x[1]].moved
                                   /\ x[2] <= Len(params[x[1]].handles)
                                   /\ Named(table, p, params[x[1]].handles[x[2]]) = o}
              IN  \A o \in Object :
                      References(table', o) = References(table, o) + Cardinality(copies(o))]_vars
  BY MessagesKeep DEF Keeps, Copies
<1>2. Spec => []Inv
  BY InvHolds
<1>3. QED
  BY <1>1, <1>2, PTL DEF Spec, ReferencesKept
=============================================================================
