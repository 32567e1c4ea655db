--------------------------- MODULE ExposureProofs ---------------------------
(* Proofs about WebExposure and NginxConfig for any specs, nodes, ports and *)
(* objects.                                                                 *)
EXTENDS WebExposure, SequenceTheorems, FiniteSetTheorems, TLAPS

-----------------------------------------------------------------------------
(* What nginx makes of a path.                                             *)

\* Paths of which nginx takes the slashes as they are.
Merged(path) == \A i \in 1..(Len(path) - 1) : path[i] = "/" => path[i + 1] # "/"

LEMMA NothingMerged ==
  ASSUME NEW S, NEW path \in Seq(S), Merged(path)
  PROVE  MergeSlashes(path) = path
<1> DEFINE n == Len(path)
           kept == {i \in DOMAIN path : i > 1 /\ path[i] = "/" => path[i - 1] # "/"}
<1>1. n \in Nat /\ DOMAIN path = 1..n /\ path = [i \in 1..n |-> path[i]]
  OBVIOUS
<1>2. ASSUME NEW i \in 1..n, i > 1, path[i] = "/" PROVE path[i - 1] # "/"
  <2>1. i - 1 \in 1..(n - 1) /\ (i - 1) + 1 = i
    BY <1>1, <1>2
  <2> QED BY <1>2, <2>1 DEF Merged
<1>3. kept = 1..n
  BY <1>1, <1>2
<1>4. Cardinality(1..n) = n
  BY <1>1, FS_Interval
<1>5. MergeSlashes(path) = [j \in 1..Cardinality(kept) |->
                              path[CHOOSE i \in kept : Cardinality({k \in kept : k <= i}) = j]]
  BY DEF MergeSlashes
<1> HIDE DEF n, kept
<1>6. Cardinality(kept) = n
  BY <1>3, <1>4
<1>7. \A j \in 1..n : (CHOOSE i \in kept : Cardinality({k \in kept : k <= i}) = j) = j
  <2> DEFINE upTo(i) == Cardinality({k \in kept : k <= i})
  <2>1. \A i \in kept : upTo(i) = i
    <3>1. \A i \in kept : {k \in kept : k <= i} = 1..i
      BY <1>1, <1>3
    <3>2. \A i \in kept : Cardinality(1..i) = i
      BY <1>1, <1>3, FS_Interval
    <3> QED BY <3>1, <3>2
  <2> SUFFICES ASSUME NEW j \in 1..n PROVE (CHOOSE i \in kept : upTo(i) = j) = j
    OBVIOUS
  <2> HIDE DEF upTo
  <2> QED BY <1>3, <2>1
<1> QED BY <1>1, <1>5, <1>6, <1>7

LEMMA PrefixHas ==
  ASSUME NEW S, NEW s \in Seq(S), NEW T, NEW t \in Seq(T), IsPrefix(s, t)
  PROVE  Len(s) <= Len(t) /\ \A i \in 1..Len(s) : s[i] = t[i]
<1>1. /\ Len(s) <= Len(t) /\ SubSeq(s, 1, Len(s)) = SubSeq(t, 1, Len(s))
      /\ Len(s) \in Nat /\ Len(t) \in Nat
  BY DEF IsPrefix
<1>2. \A i \in 1..Len(s) : SubSeq(s, 1, Len(s))[i] = s[i]
  BY <1>1
<1>3. \A i \in 1..Len(s) : SubSeq(t, 1, Len(s))[i] = t[i]
  BY <1>1
<1> QED BY <1>1, <1>2, <1>3

LEMMA IsPrefixIf ==
  ASSUME NEW S, NEW s \in Seq(S), NEW T, NEW t \in Seq(T), Len(s) <= Len(t),
         \A i \in 1..Len(s) : s[i] = t[i]
  PROVE  IsPrefix(s, t)
<1>1. Len(s) \in Nat /\ Len(t) \in Nat
  OBVIOUS
<1>2. /\ SubSeq(s, 1, Len(s)) = [i \in 1..Len(s) |-> s[i]]
      /\ SubSeq(t, 1, Len(s)) = [i \in 1..Len(s) |-> t[i]]
  BY <1>1
<1> QED BY <1>1, <1>2 DEF IsPrefix

\* A path that does not end in one of some extensions has none of them.
LEMMA NoExtension ==
  ASSUME NEW S, NEW path \in Seq(S), Len(path) > 0, NEW extensions, path[Len(path)] \notin extensions
  PROVE  ~HasExtension(path, extensions)
<1> SUFFICES ASSUME NEW e \in extensions, IsSuffix(<<".", e>>, path) PROVE FALSE
  BY DEF HasExtension
<1> DEFINE s == <<".", e>>
           r == Reverse(s)
           t == Reverse(path)
<1>1. r \in Seq({".", e}) /\ Len(r) = 2 /\ r[1] = e
  BY DEF Reverse
<1>2. Len(path) \in Nat /\ t \in Seq(S) /\ Len(t) = Len(path) /\ t[1] = path[Len(path)]
  BY DEF Reverse
<1>3. IsPrefix(r, t)
  BY DEF IsSuffix
<1> HIDE DEF s, r, t
<1>4. r[1] = t[1]
  <2>1. \A i \in 1..Len(r) : r[i] = t[i]
    BY <1>1, <1>2, <1>3, PrefixHas
  <2> QED BY <1>1, <2>1
<1> QED BY <1>1, <1>2, <1>4

\* The two last tokens of a path decide.
LEMMA ExtensionKept ==
  ASSUME NEW S, NEW path \in Seq(S), Len(path) > 1, NEW T, NEW o \in Seq(T), Len(o) > 1,
         path[Len(path)] = o[Len(o)], path[Len(path) - 1] = o[Len(o) - 1],
         NEW extensions, HasExtension(path, extensions)
  PROVE  HasExtension(o, extensions)
<1> PICK e \in extensions : IsSuffix(<<".", e>>, path)
  BY DEF HasExtension
<1> DEFINE s == <<".", e>>
           r == Reverse(s)
           t == Reverse(path)
           u == Reverse(o)
<1>1. r \in Seq({".", e}) /\ Len(r) = 2
  BY DEF Reverse
<1>2. /\ Len(path) \in Nat /\ t \in Seq(S) /\ Len(t) = Len(path)
      /\ t[1] = path[Len(path)] /\ t[2] = path[Len(path) - 1]
  BY DEF Reverse
<1>3. /\ Len(o) \in Nat /\ u \in Seq(T) /\ Len(u) = Len(o)
      /\ u[1] = o[Len(o)] /\ u[2] = o[Len(o) - 1]
  BY DEF Reverse
<1>4. IsPrefix(r, t)
  BY DEF IsSuffix
<1> HIDE DEF s, r, t, u
<1>5. \A i \in 1..Len(r) : r[i] = t[i]
  BY ONLY <1>1, <1>2, <1>4, PrefixHas
<1>6. \A i \in 1..Len(r) : r[i] = u[i]
  BY <1>1, <1>2, <1>3, <1>5
<1>7. Len(r) <= Len(u)
  BY <1>1, <1>3
<1>8. IsPrefix(r, u)
  BY ONLY <1>1, <1>3, <1>6, <1>7, IsPrefixIf
<1> QED BY <1>8 DEF HasExtension, IsSuffix, s, r, u

-----------------------------------------------------------------------------
(* Where nginx sends a request.                                            *)

\* The tokens of the configuration's own paths and of all others.
Token ==
  STRING \cup {"/", ".", "ws", "v1", "pod", "site-messages", "portal", "manager", "workload",
               "console", "health", "storage"}

Fixed == {Location(<<"/", "health">>, "health"), Location(<<"/">>, "html")} \cup APILocations

LEMMA LocationHas == \A path, to : Location(path, to).path = path /\ Location(path, to).to = to
BY DEF Location

\* The last token of a fixed location's path tells which one it is.
LEMMA FixedLocations ==
  /\ \A l \in Fixed :
       /\ l.path \in Seq(Token) /\ Len(l.path) \in {1, 2, 6}
       /\ Len(l.path) = 6 => l \in APILocations
       /\ l \in APILocations => l.path[Len(l.path)] # "/"
  /\ \A l, m \in Fixed : l.path[Len(l.path)] = m.path[Len(m.path)] => l = m
<1> DEFINE a == Location(<<"/", "ws", "/", "v1", "/", "pod">>, "console_api")
           b == Location(<<"/", "ws", "/", "v1", "/", "site-messages">>, "portal_api")
           c == Location(<<"/", "portal">>, "portal_api")
           d == Location(<<"/", "manager">>, "manager_api")
           e == Location(<<"/", "workload">>, "workload_api")
           f == Location(<<"/", "console">>, "console_api")
           g == Location(<<"/", "health">>, "health")
           h == Location(<<"/">>, "html")
<1>1. APILocations = {a, b, c, d, e, f} /\ Fixed = {a, b, c, d, e, f, g, h}
  BY DEF APILocations, Fixed
<1>2. \A s \in {"/", "ws", "v1", "pod", "site-messages", "portal", "manager", "workload",
                "console", "health"} : s \in Token
  BY DEF Token
<1>3. /\ a.path = <<"/", "ws", "/", "v1", "/", "pod">>
      /\ b.path = <<"/", "ws", "/", "v1", "/", "site-messages">>
      /\ c.path = <<"/", "portal">> /\ d.path = <<"/", "manager">> /\ e.path = <<"/", "workload">>
      /\ f.path = <<"/", "console">> /\ g.path = <<"/", "health">> /\ h.path = <<"/">>
  BY LocationHas
<1> HIDE DEF a, b, c, d, e, f, g, h
<1>4. /\ a.path \in Seq(Token) /\ Len(a.path) = 6 /\ a.path[4] = "v1" /\ a.path[6] = "pod"
      /\ b.path \in Seq(Token) /\ Len(b.path) = 6 /\ b.path[4] = "v1" /\ b.path[6] = "site-messages"
  BY <1>2, <1>3
<1>5. /\ c.path \in Seq(Token) /\ Len(c.path) = 2 /\ c.path[2] = "portal"
      /\ d.path \in Seq(Token) /\ Len(d.path) = 2 /\ d.path[2] = "manager"
      /\ e.path \in Seq(Token) /\ Len(e.path) = 2 /\ e.path[2] = "workload"
  BY <1>2, <1>3
<1>6. /\ f.path \in Seq(Token) /\ Len(f.path) = 2 /\ f.path[2] = "console"
      /\ g.path \in Seq(Token) /\ Len(g.path) = 2 /\ g.path[2] = "health"
      /\ h.path \in Seq(Token) /\ Len(h.path) = 1 /\ h.path[1] = "/"
  BY <1>2, <1>3
<1>7. \A l \in Fixed :
       /\ l.path \in Seq(Token) /\ Len(l.path) \in {1, 2, 6}
       /\ Len(l.path) = 6 => l \in APILocations
  <2> DEFINE Known(l) == /\ l.path \in Seq(Token) /\ Len(l.path) \in {1, 2, 6}
                         /\ Len(l.path) = 6 => l \in APILocations
  <2>1. Known(a) /\ Known(b)
    BY <1>1, <1>4
  <2>2. Known(c) /\ Known(d) /\ Known(e)
    BY <1>5
  <2>3. Known(f) /\ Known(g) /\ Known(h)
    BY <1>6
  <2>4. \A l \in Fixed : Known(l)
    <3> HIDE DEF Known
    <3> QED BY <1>1, <2>1, <2>2, <2>3
  <2> QED BY <2>4
<1>8. \A l \in APILocations : l.path[Len(l.path)] # "/"
  BY <1>1, <1>4, <1>5, <1>6
<1> DEFINE End(l) == l.path[Len(l.path)]
<1>9. /\ End(a) = "pod" /\ End(b) = "site-messages" /\ End(c) = "portal" /\ End(d) = "manager"
      /\ End(e) = "workload" /\ End(f) = "console" /\ End(g) = "health" /\ End(h) = "/"
  BY <1>4, <1>5, <1>6
<1> HIDE DEF End
<1>10. \A l, m \in {a, b, c, d, e, f, g, h} : End(l) = End(m) => l = m
  BY <1>9
<1> QED BY <1>1, <1>7, <1>8, <1>10 DEF End

LEMMA Blocks ==
  ASSUME NEW web
  PROVE  \A l \in buildLocationBlocks(web) :
           l \in Fixed \/ (Enabled(web.minioProxy) /\ l = Location(MinIOPrefix(web), "minio_backend"))
BY DEF buildLocationBlocks, MinIOLocations, Fixed

\* The longest location that is a prefix of the path, if no pattern matches.
LEMMA DestinationIs ==
  ASSUME NEW web, NEW path, NEW l \in buildLocationBlocks(web), path \notin ExactLocations,
         \A i \in DOMAIN Patterns : ~MatchesPattern(Patterns[i], path),
         IsPrefix(l.path, path), Len(l.path) \in Nat,
         \A m \in buildLocationBlocks(web) :
           IsPrefix(m.path, path) /\ m # l => Len(m.path) \in Nat /\ Len(m.path) < Len(l.path)
  PROVE  Destination(web, path) = l.to
<1> DEFINE prefixes == {m \in buildLocationBlocks(web) : IsPrefix(m.path, path)}
           longest == CHOOSE k \in prefixes : \A m \in prefixes : Len(m.path) <= Len(k.path)
<1>1. l \in prefixes /\ \A m \in prefixes : Len(m.path) <= Len(l.path)
  OBVIOUS
<1>2. \A k \in prefixes : (\A m \in prefixes : Len(m.path) <= Len(k.path)) => k = l
  <2> SUFFICES ASSUME NEW k \in prefixes, Len(l.path) <= Len(k.path) PROVE k = l
    BY <1>1
  <2> QED OBVIOUS
<1> HIDE DEF prefixes
<1>3. longest = l
  BY <1>1, <1>2
<1>4. {i \in DOMAIN Patterns : MatchesPattern(Patterns[i], path)} = {}
  OBVIOUS
<1> QED BY <1>3, <1>4 DEF Destination, prefixes

\* Paths that no pattern matches.
LEMMA NoPattern ==
  ASSUME NEW path, ~HasExtension(path, {"js", "css", "html"}),
         ~HasExtension(path, Assets) \/ IsPrefix(<<"/", "storage", "/">>, path),
         \A i \in 1..(Len(path) - 1) : path[i] = "/" => path[i + 1] # "."
  PROVE  \A i \in DOMAIN Patterns : ~MatchesPattern(Patterns[i], path)
<1>1. ~HasExtension(path, {"js", "css"}) /\ ~HasExtension(path, {"html"})
  BY Zenon DEF HasExtension
<1>2. \A pattern \in {"asset", "script", "page", "hidden"} : ~MatchesPattern(pattern, path)
  BY <1>1 DEF MatchesPattern
<1>3. \A i \in DOMAIN Patterns : Patterns[i] \in {"asset", "script", "page", "hidden"}
  BY DEF Patterns
<1> QED BY <1>2, <1>3

-----------------------------------------------------------------------------
(* Objects behind the MinIO prefix.                                        *)

LEMMA Joined ==
  ASSUME NEW S, NEW p \in Seq(S), NEW o \in Seq(S), NEW path, path = p \o o
  PROVE  /\ path \in Seq(S) /\ Len(path) = Len(p) + Len(o)
         /\ \A i \in 1..Len(p) : path[i] = p[i]
         /\ \A j \in 1..Len(o) : path[Len(p) + j] = o[j]
<1>1. /\ path \in Seq(S) /\ Len(path) = Len(p) + Len(o)
      /\ \A i \in 1..Len(p) + Len(o) : path[i] = IF i <= Len(p) THEN p[i] ELSE o[i - Len(p)]
  BY ConcatProperties
<1>2. Len(p) \in Nat /\ Len(o) \in Nat
  OBVIOUS
<1> QED BY <1>1, <1>2

\* A slash and the rest of a path make the path.
LEMMA SlashAndRest ==
  ASSUME NEW p \in Seq(Token), Len(p) > 0, p[1] = "/", NEW rest \in Seq(Token),
         Len(rest) = Len(p) - 1, \A i \in 1..Len(rest) : rest[i] = p[i + 1]
  PROVE  <<"/">> \o rest = p
<1> DEFINE one == <<"/">>
           way == one \o rest
<1>1. one \in Seq(Token)
  BY DEF Token
<1>2. Len(one) = 1 /\ one[1] = "/"
  OBVIOUS
<1>3. Len(p) \in Nat /\ Len(rest) \in Nat
  OBVIOUS
<1> HIDE DEF one, way
<1>4. way = one \o rest
  BY DEF way
<1>5. way \in Seq(Token) /\ Len(way) = Len(one) + Len(rest)
  BY ONLY <1>1, <1>4, Joined, rest \in Seq(Token)
<1>6. \A i \in 1..Len(one) : way[i] = one[i]
  BY ONLY <1>1, <1>4, Joined, rest \in Seq(Token)
<1>7. \A j \in 1..Len(rest) : way[Len(one) + j] = rest[j]
  BY ONLY <1>1, <1>4, Joined, rest \in Seq(Token)
<1>8. Len(way) = Len(p) /\ way[1] = p[1]
  BY <1>2, <1>3, <1>5, <1>6
<1>9. \A i \in 2..Len(p) : way[i] = p[i]
  <2> SUFFICES ASSUME NEW i \in 2..Len(p) PROVE way[i] = p[i]
    OBVIOUS
  <2>1. i - 1 \in 1..Len(rest) /\ 1 + (i - 1) = i /\ (i - 1) + 1 = i
    BY <1>3
  <2> QED BY <1>2, <1>7, <2>1
<1>10. \A i \in 1..Len(p) : i = 1 \/ i \in 2..Len(p)
  BY <1>3
<1>11. way = p
  BY <1>5, <1>8, <1>9, <1>10, SeqEqual
<1> QED BY <1>11 DEF way, one

LEMMA ProxyPathIs ==
  ASSUME NEW web, NEW p, p = GetMinIOProxyPath(web), p \in Seq(Token), Len(p) > 0, p[1] = "/"
  PROVE  ProxyPath(web) = p
<1> DEFINE rest == Tail(p)
<1>1. ProxyPath(web) = <<"/">> \o rest
  BY DEF ProxyPath
<1>2. /\ rest \in Seq(Token) /\ Len(rest) = Len(p) - 1
      /\ \A i \in 1..Len(rest) : rest[i] = p[i + 1]
  OBVIOUS
<1> HIDE DEF rest
<1> QED BY <1>1, <1>2, SlashAndRest

\* What is used of the objects' paths.
Object(o) ==
  /\ o \in Seq(Token) /\ Len(o) > 1 /\ o[1] = "/"
  /\ \A i \in 1..(Len(o) - 1) : o[i] = "/" => o[i + 1] \notin {"/", "."}
  /\ ~HasExtension(o, {"js", "css", "html"})

\* An object's path behind a prefix: its parts, and that it is as well-formed as
\* the two are.
LEMMA Tokens ==
  ASSUME NEW p, WellFormed(p), NEW o, Object(o)
  PROVE  /\ p \in Seq(Token) /\ Len(p) \in Nat /\ Len(p) > 1
         /\ o \in Seq(Token) /\ Len(o) \in Nat /\ Len(o) > 1
<1>1. STRING \subseteq Token
  BY DEF Token
<1>2. p \in Seq(STRING) /\ o \in Seq(Token) /\ Len(p) > 1 /\ Len(o) > 1
  BY DEF WellFormed, Plain, Object
<1>3. p \in Seq(Token)
  BY <1>1, <1>2, SeqMonotonic
<1> QED BY <1>2, <1>3

LEMMA ObjectPath ==
  ASSUME NEW p, WellFormed(p), NEW o, Object(o), NEW path, path = p \o o
  PROVE  /\ path \in Seq(Token) /\ Len(path) = Len(p) + Len(o) /\ p \in Seq(Token)
         /\ Len(p) \in Nat /\ Len(o) \in Nat
<1>1. p \in Seq(Token) /\ o \in Seq(Token) /\ Len(p) \in Nat /\ Len(o) \in Nat
  BY Tokens
<1>2. path \in Seq(Token) /\ Len(path) = Len(p) + Len(o)
  BY ONLY <1>1, path = p \o o, Joined
<1> QED BY <1>1, <1>2

LEMMA ObjectPathHead ==
  ASSUME NEW p, WellFormed(p), NEW o, Object(o), NEW path, path = p \o o
  PROVE  \A i \in 1..Len(p) : path[i] = p[i]
<1>1. p \in Seq(Token) /\ o \in Seq(Token)
  BY Tokens
<1> QED BY ONLY <1>1, path = p \o o, Joined

LEMMA ObjectPathTail ==
  ASSUME NEW p, WellFormed(p), NEW o, Object(o), NEW path, path = p \o o
  PROVE  \A j \in 1..Len(o) : path[Len(p) + j] = o[j]
<1>1. p \in Seq(Token) /\ o \in Seq(Token)
  BY Tokens
<1> QED BY ONLY <1>1, path = p \o o, Joined

LEMMA ObjectPathClean ==
  ASSUME NEW p, WellFormed(p), NEW o, Object(o), NEW path, path = p \o o
  PROVE  \A i \in 1..(Len(path) - 1) : path[i] = "/" => path[i + 1] \notin {"/", "."}
<1> SUFFICES ASSUME NEW i \in 1..(Len(path) - 1), path[i] = "/" PROVE path[i + 1] \notin {"/", "."}
  OBVIOUS
<1>1. /\ Len(p) \in Nat /\ Len(p) > 1 /\ Len(o) \in Nat /\ Len(o) > 1
      /\ Len(path) = Len(p) + Len(o)
  BY Tokens, ObjectPath
<1>2. \A k \in 1..Len(p) : path[k] = p[k]
  BY ObjectPathHead
<1>3. \A j \in 1..Len(o) : path[Len(p) + j] = o[j]
  BY ObjectPathTail
<1>4. CASE i < Len(p)
  <2>1. i \in 1..(Len(p) - 1) /\ i \in 1..Len(p) /\ i + 1 \in 1..Len(p)
    BY <1>1, <1>4
  <2>2. path[i] = p[i] /\ path[i + 1] = p[i + 1]
    BY <1>2, <2>1
  <2> QED BY <2>1, <2>2 DEF WellFormed, Plain
<1>5. CASE i = Len(p)
  <2>1. path[i] = p[Len(p)]
    BY <1>1, <1>2, <1>5
  <2> QED BY <2>1 DEF WellFormed
<1>6. CASE i > Len(p)
  <2> DEFINE j == i - Len(p)
  <2>1. j \in 1..(Len(o) - 1) /\ j \in 1..Len(o) /\ j + 1 \in 1..Len(o)
        /\ Len(p) + j = i /\ Len(p) + (j + 1) = i + 1
    BY <1>1, <1>6
  <2> HIDE DEF j
  <2>2. path[i] = o[j] /\ path[i + 1] = o[j + 1]
    BY <1>3, <2>1
  <2> QED BY <2>1, <2>2 DEF Object
<1> QED BY <1>1, <1>4, <1>5, <1>6

LEMMA ObjectPathEnd ==
  ASSUME NEW p, WellFormed(p), NEW o, Object(o), NEW path, path = p \o o
  PROVE  path[Len(path)] = o[Len(o)] /\ path[Len(path) - 1] = o[Len(o) - 1]
<1> DEFINE n == Len(p)
           k == Len(o)
<1>1. n \in Nat /\ k \in Nat /\ k > 1 /\ Len(path) = n + k
  BY Tokens, ObjectPath
<1>2. \A j \in 1..k : path[n + j] = o[j]
  BY ObjectPathTail
<1> HIDE DEF n, k
<1>3. k \in 1..k /\ k - 1 \in 1..k /\ n + (k - 1) = (n + k) - 1
  BY ONLY <1>1
<1>4. path[n + k] = o[k] /\ path[(n + k) - 1] = o[k - 1]
  BY ONLY <1>2, <1>3
<1> QED BY <1>1, <1>4 DEF k

\* It has no extension that the object does not have.
LEMMA ObjectExtension ==
  ASSUME NEW p, WellFormed(p), NEW o, Object(o), NEW path, path = p \o o,
         NEW extensions, ~HasExtension(o, extensions)
  PROVE  ~HasExtension(path, extensions)
<1>1. path \in Seq(Token) /\ o \in Seq(Token) /\ Len(o) > 1
  <2>1. path \in Seq(Token)
    BY ObjectPath
  <2> QED BY <2>1 DEF Object
<1>2. Len(path) > 1
  <2>1. Len(path) = Len(p) + Len(o) /\ Len(p) \in Nat /\ Len(o) \in Nat
    BY ObjectPath
  <2> QED BY ONLY <1>1, <2>1
<1>3. path[Len(path)] = o[Len(o)] /\ path[Len(path) - 1] = o[Len(o) - 1]
  BY ONLY WellFormed(p), Object(o), path = p \o o, ObjectPathEnd, Zenon
<1>4. ASSUME HasExtension(path, extensions) PROVE FALSE
  <2>1. HasExtension(o, extensions)
    BY ONLY <1>1, <1>2, <1>3, <1>4, ExtensionKept
  <2> QED BY <2>1
<1> QED BY <1>4

LEMMA ObjectMerged ==
  ASSUME NEW p, WellFormed(p), NEW o, Object(o), NEW path, path = p \o o
  PROVE  MergeSlashes(path) = path
<1>1. path \in Seq(Token)
  BY ObjectPath
<1>2. Merged(path)
  BY ObjectPathClean DEF Merged
<1> QED BY <1>1, <1>2, NothingMerged

\* The location of the prefix is one of them.
LEMMA PrefixLocation ==
  ASSUME NEW p, WellFormed(p), NEW o, Object(o), NEW way, way = p \o o,
         NEW prefix, prefix = p \o <<"/">>
  PROVE  prefix \in Seq(Token) /\ Len(prefix) = Len(p) + 1 /\ IsPrefix(prefix, way)
<1> DEFINE n == Len(p)
           one == <<"/">>
<1>1. p \in Seq(Token) /\ way \in Seq(Token) /\ n \in Nat /\ Len(o) \in Nat /\ Len(way) = n + Len(o)
  BY ObjectPath
<1>2. \A i \in 1..n : way[i] = p[i]
  BY ObjectPathHead
<1>3. \A j \in 1..Len(o) : way[n + j] = o[j]
  BY ObjectPathTail
<1>4. Len(o) > 1 /\ o[1] = "/"
  BY DEF Object
<1>5. one \in Seq(Token)
  BY DEF Token
<1>6. Len(one) = 1 /\ one[1] = "/"
  OBVIOUS
<1>7. prefix = p \o one
  OBVIOUS
<1> HIDE DEF one
<1>8. prefix \in Seq(Token) /\ Len(prefix) = n + Len(one)
  BY ONLY <1>1, <1>5, <1>7, Joined
<1>9. \A i \in 1..n : prefix[i] = p[i]
  BY ONLY <1>1, <1>5, <1>7, Joined
<1>10. \A j \in 1..Len(one) : prefix[n + j] = one[j]
  BY ONLY <1>1, <1>5, <1>7, Joined
<1> HIDE DEF n
<1>11. \A i \in 1..(n + 1) : prefix[i] = way[i]
  <2>1. prefix[n + 1] = "/" /\ way[n + 1] = "/"
    BY ONLY <1>1, <1>3, <1>4, <1>6, <1>10
  <2>2. \A i \in 1..(n + 1) : i \in 1..n \/ i = n + 1
    BY ONLY <1>1
  <2> QED BY ONLY <1>2, <1>9, <2>1, <2>2
<1>12. Len(prefix) = n + 1 /\ Len(prefix) <= Len(way)
  BY ONLY <1>1, <1>4, <1>6, <1>8
<1>13. IsPrefix(prefix, way)
  BY ONLY <1>1, <1>8, <1>11, <1>12, IsPrefixIf
<1> QED BY <1>8, <1>12, <1>13 DEF n

\* No location but MinIO's is as long a prefix of such a path: it would begin
\* with MinIO's.
LEMMA ShorterLocations ==
  ASSUME NEW p, WellFormed(p), NEW o, Object(o), NEW way, way = p \o o,
         NEW l \in Fixed, IsPrefix(l.path, way)
  PROVE  Len(l.path) \in Nat /\ Len(l.path) <= Len(p)
<1> DEFINE n == Len(p)
           k == Len(l.path)
           c == l.path
           prefix == p \o <<"/">>
<1>1. way \in Seq(Token) /\ n \in Nat
  BY ObjectPath
<1>2. n > 1
  BY DEF WellFormed, Plain
<1>3. c \in Seq(Token)
  BY FixedLocations
<1>4. k \in {1, 2, 6}
  BY FixedLocations
<1>5. k = 6 => l \in APILocations
  BY FixedLocations
<1>6. \A i \in 1..k : c[i] = way[i]
  BY <1>1, <1>3, PrefixHas
<1>7. prefix \in Seq(Token) /\ Len(prefix) = n + 1 /\ IsPrefix(prefix, way)
  BY PrefixLocation
<1>8. l \in APILocations => ~IsPrefix(prefix, c)
  BY DEF WellFormed
<1>9. Len(c) = k
  OBVIOUS
<1> HIDE DEF n, k, c, prefix
<1>10. \A i \in 1..(n + 1) : prefix[i] = way[i]
  BY ONLY <1>1, <1>7, PrefixHas
<1>11. ASSUME k = 6, n < 6 PROVE FALSE
  <2>1. \A i \in 1..(n + 1) : prefix[i] = c[i]
    BY ONLY <1>1, <1>6, <1>10, <1>11
  <2>2. Len(prefix) <= Len(c)
    BY ONLY <1>1, <1>7, <1>9, <1>11
  <2>3. IsPrefix(prefix, c)
    BY ONLY <1>3, <1>7, <2>1, <2>2, IsPrefixIf
  <2> QED BY ONLY <1>5, <1>8, <1>11, <2>3
<1>12. k \in Nat /\ k <= n
  BY ONLY <1>1, <1>2, <1>4, <1>11
<1> QED BY <1>12 DEF n, k

\* The pattern for assets leaves it alone.
NoAsset(o, way) == ~HasExtension(o, Assets) \/ IsPrefix(<<"/", "storage", "/">>, way)

\* nginx sends it to MinIO.
LEMMA ObjectFound ==
  ASSUME NEW web, Enabled(web.minioProxy), NEW p, p = GetMinIOProxyPath(web), WellFormed(p),
         NEW o, Object(o), NEW way, way = p \o o,
         NoAsset(o, way)
  PROVE  Destination(web, way) = "minio_backend"
<1> DEFINE prefix == MinIOPrefix(web)
           l == Location(prefix, "minio_backend")
<1>0. WellFormed(p) /\ Object(o) /\ way = p \o o
  OBVIOUS
<1>1. way \in Seq(Token) /\ Len(p) \in Nat /\ Len(o) \in Nat /\ Len(way) = Len(p) + Len(o)
  BY ONLY <1>0, ObjectPath
<1>2. Len(p) > 1 /\ way[Len(p) + 1] = "/"
  <2>1. Len(o) > 1 /\ o[1] = "/" /\ 1 \in 1..Len(o)
    BY ONLY <1>0, <1>1 DEF Object
  <2>2. \A j \in 1..Len(o) : way[Len(p) + j] = o[j]
    BY ONLY <1>0, ObjectPathTail
  <2> QED BY ONLY <1>0, <2>1, <2>2 DEF WellFormed, Plain
<1>3. \A i \in 1..(Len(way) - 1) : way[i] = "/" => way[i + 1] \notin {"/", "."}
  BY ONLY <1>0, ObjectPathClean
<1>4. prefix = p \o <<"/">>
  BY DEF MinIOPrefix
<1>5. prefix \in Seq(Token) /\ Len(prefix) = Len(p) + 1 /\ IsPrefix(prefix, way)
  BY <1>4, PrefixLocation
<1> HIDE DEF prefix
<1>8. way \notin ExactLocations
  <2> DEFINE a == <<"/", "favicon", ".", "ico">>
             b == <<"/", "robots", ".", "txt">>
             n == Len(p)
             k == Len(o)
             w == Len(way)
  <2>1. /\ Len(a) = 4 /\ a[2] # "/" /\ a[3] # "/" /\ a[4] # "/"
        /\ Len(b) = 4 /\ b[2] # "/" /\ b[3] # "/" /\ b[4] # "/"
    OBVIOUS
  <2>2. ExactLocations = {a, b}
    BY DEF ExactLocations
  <2>3. n \in Nat /\ n > 1 /\ w = n + k /\ k \in Nat /\ k > 1
    BY ONLY <1>0, <1>1, <1>2 DEF Object
  <2> HIDE DEF a, b, n, k, w
  <2>4. w = 4 => n + 1 \in {2, 3, 4}
    BY ONLY <2>3
  <2>5. ASSUME NEW c \in {a, b}, way = c PROVE FALSE
    <3>1. Len(way) = 4 /\ c[2] # "/" /\ c[3] # "/" /\ c[4] # "/"
      BY ONLY <2>1, <2>5
    <3>2. c[n + 1] = "/"
      BY <1>2, <2>5 DEF n
    <3>3. w = 4
      BY <3>1 DEF w
    <3> QED BY ONLY <2>4, <3>1, <3>2, <3>3
  <2> QED BY <2>2, <2>5
<1>9. \A i \in DOMAIN Patterns : ~MatchesPattern(Patterns[i], way)
  <2>1. ~HasExtension(way, {"js", "css", "html"})
    BY <1>0, ObjectExtension DEF Object
  <2>2. ~HasExtension(way, Assets) \/ IsPrefix(<<"/", "storage", "/">>, way)
    BY <1>0, ObjectExtension DEF NoAsset
  <2>3. \A i \in 1..(Len(way) - 1) : way[i] = "/" => way[i + 1] # "."
    BY <1>3
  <2> QED BY <2>1, <2>2, <2>3, NoPattern
<1>10. l \in buildLocationBlocks(web) /\ l.path = prefix /\ l.to = "minio_backend"
  BY LocationHas DEF buildLocationBlocks, MinIOLocations, prefix
<1> HIDE DEF l
<1>11. ASSUME NEW m \in buildLocationBlocks(web), IsPrefix(m.path, way), m # l
       PROVE  Len(m.path) \in Nat /\ Len(m.path) < Len(l.path)
  <2>1. m \in Fixed
    BY <1>11, Blocks DEF l, prefix
  <2>2. Len(m.path) \in Nat /\ Len(m.path) <= Len(p)
    BY <1>11, <2>1, ShorterLocations
  <2> QED BY <1>1, <1>5, <1>10, <2>2
<1>12. Destination(web, way) = l.to
  <2>1. IsPrefix(l.path, way) /\ Len(l.path) \in Nat
    BY <1>1, <1>5, <1>10
  <2> QED BY <1>8, <1>9, <1>10, <1>11, <2>1, DestinationIs
<1> QED BY <1>10, <1>12

\* There it arrives as the object's own path.
LEMMA ObjectRewritten ==
  ASSUME NEW web, WellFormed(GetMinIOProxyPath(web)), NEW o, Object(o)
  PROVE  Rewritten(web, GetMinIOProxyPath(web) \o o) = o
<1> DEFINE p == GetMinIOProxyPath(web)
           way == p \o o
           n == Len(p)
           k == Len(o)
           rest == SubSeq(way, n + 2, n + k)
<1>1. n \in Nat /\ k \in Nat /\ k > 1 /\ Len(way) = n + k /\ way \in Seq(Token)
  BY Tokens, ObjectPath
<1>2. Rewritten(web, way) = <<"/">> \o rest
  <2>1. MinIOPrefix(web) = p \o <<"/">>
    BY DEF MinIOPrefix
  <2> DEFINE prefix == MinIOPrefix(web)
  <2>2. Len(prefix) = n + 1
    BY ONLY <2>1, PrefixLocation, WellFormed(p), Object(o), way = p \o o
  <2>3. (n + 1) + 1 = n + 2
    BY ONLY <1>1
  <2> QED BY <1>1, <2>2, <2>3 DEF Rewritten
<1>3. \A j \in 1..k : way[n + j] = o[j]
  BY ObjectPathTail
<1>7. Len(o) = k /\ o \in Seq(Token) /\ o[1] = "/"
  BY DEF Object
<1> HIDE DEF n, k
<1>4. rest \in Seq(Token) /\ Len(rest) = k - 1 /\ \A i \in 1..(k - 1) : rest[i] = way[n + 1 + i]
  BY ONLY <1>1
<1>5. \A i \in 1..(k - 1) : rest[i] = o[i + 1]
  <2> HIDE DEF rest
  <2> SUFFICES ASSUME NEW i \in 1..(k - 1) PROVE rest[i] = o[i + 1]
    OBVIOUS
  <2>1. i + 1 \in 1..k /\ n + (i + 1) = n + 1 + i
    BY ONLY <1>1, i \in 1..(k - 1)
  <2> QED BY ONLY <1>3, <1>4, <2>1, i \in 1..(k - 1)
<1> HIDE DEF rest
<1>6. <<"/">> \o rest = o
  <2>1. Len(o) > 0 /\ Len(rest) = Len(o) - 1
    BY ONLY <1>1, <1>4, <1>7
  <2>2. \A i \in 1..Len(rest) : rest[i] = o[i + 1]
    BY ONLY <1>4, <1>5
  <2>3. rest \in Seq(Token)
    BY ONLY <1>4
  <2> QED BY ONLY <1>7, <2>1, <2>2, <2>3, SlashAndRest
<1> QED BY <1>2, <1>6

-----------------------------------------------------------------------------
(* The frontend's own paths.                                               *)

\* They are as nginx takes them, and no pattern matches them.
LEMMA FixedPaths ==
  ASSUME NEW l \in Fixed
  PROVE  /\ Merged(l.path) /\ l.path \notin ExactLocations
         /\ \A i \in DOMAIN Patterns : ~MatchesPattern(Patterns[i], l.path)
         /\ l.to # "minio_backend"
<1> DEFINE EndOf(path) == path[Len(path)]
           Ordinary(path) == /\ \A i \in 1..(Len(path) - 1) : path[i] = "/" => path[i + 1] \notin {"/", "."}
                             /\ EndOf(path) \notin {"js", "css", "html", "ico", "txt"} \cup Assets
<1>1. l.path \in Seq(Token) /\ Len(l.path) > 0
  <2> DEFINE k == Len(l.path)
  <2>1. l.path \in Seq(Token) /\ k \in {1, 2, 6}
    BY FixedLocations
  <2> HIDE DEF k
  <2>2. k > 0
    BY ONLY <2>1
  <2> QED BY <2>1, <2>2 DEF k
<1>2. Ordinary(l.path) /\ l.to # "minio_backend"
  <2> DEFINE Known(m) == Ordinary(m.path) /\ m.to # "minio_backend"
  <2>1. Ordinary(<<"/", "ws", "/", "v1", "/", "pod">>)
    BY DEF Assets
  <2>2. Ordinary(<<"/", "ws", "/", "v1", "/", "site-messages">>)
    BY DEF Assets
  <2>3. Ordinary(<<"/", "portal">>) /\ Ordinary(<<"/", "manager">>) /\ Ordinary(<<"/", "workload">>)
    BY DEF Assets
  <2>4. Ordinary(<<"/", "console">>) /\ Ordinary(<<"/", "health">>) /\ Ordinary(<<"/">>)
    BY DEF Assets
  <2> HIDE DEF Ordinary
  <2>5. /\ Known(Location(<<"/", "ws", "/", "v1", "/", "pod">>, "console_api"))
        /\ Known(Location(<<"/", "ws", "/", "v1", "/", "site-messages">>, "portal_api"))
        /\ Known(Location(<<"/", "portal">>, "portal_api"))
        /\ Known(Location(<<"/", "manager">>, "manager_api"))
    BY <2>1, <2>2, <2>3, LocationHas
  <2>6. /\ Known(Location(<<"/", "workload">>, "workload_api"))
        /\ Known(Location(<<"/", "console">>, "console_api"))
        /\ Known(Location(<<"/", "health">>, "health")) /\ Known(Location(<<"/">>, "html"))
    BY <2>3, <2>4, LocationHas
  <2>7. Known(l)
    <3> HIDE DEF Known
    <3> QED BY <2>5, <2>6 DEF Fixed, APILocations
  <2> QED BY <2>7
<1>3. Merged(l.path)
  BY <1>2 DEF Merged
<1>4. l.path \notin ExactLocations
  <2> DEFINE a == <<"/", "favicon", ".", "ico">>
             b == <<"/", "robots", ".", "txt">>
  <2>1. a[Len(a)] = "ico" /\ b[Len(b)] = "txt"
    OBVIOUS
  <2>2. ExactLocations = {a, b}
    BY DEF ExactLocations
  <2> HIDE DEF a, b
  <2> QED BY <1>2, <2>1, <2>2
<1>5. \A i \in DOMAIN Patterns : ~MatchesPattern(Patterns[i], l.path)
  <2>1. /\ EndOf(l.path) \notin {"js", "css", "html"} /\ EndOf(l.path) \notin Assets
        /\ \A i \in 1..(Len(l.path) - 1) : l.path[i] = "/" => l.path[i + 1] # "."
    BY <1>2
  <2>2. ~HasExtension(l.path, {"js", "css", "html"}) /\ ~HasExtension(l.path, Assets)
    BY <1>1, <2>1, NoExtension
  <2> QED BY <2>1, <2>2, NoPattern
<1> QED BY <1>2, <1>3, <1>4, <1>5

\* A prefix of MinIO's ends in a slash and is longer than that.
LEMMA MinIOPrefixIs ==
  ASSUME NEW web, NEW S, GetMinIOProxyPath(web) \in Seq(S), Len(GetMinIOProxyPath(web)) > 0
  PROVE  \E T : /\ MinIOPrefix(web) \in Seq(T) /\ Len(MinIOPrefix(web)) > 1
                /\ MinIOPrefix(web)[Len(MinIOPrefix(web))] = "/"
<1> DEFINE p == GetMinIOProxyPath(web)
           T == S \cup {"/"}
           one == <<"/">>
<1>1. p \in Seq(T) /\ one \in Seq(T)
  <2>1. p \in Seq(T)
    BY SeqMonotonic
  <2> QED BY <2>1
<1>2. Len(one) = 1 /\ one[1] = "/" /\ Len(p) \in Nat /\ Len(p) > 0
  OBVIOUS
<1>3. MinIOPrefix(web) = p \o one
  BY DEF MinIOPrefix
<1> HIDE DEF p, T, one
<1>4. MinIOPrefix(web) \in Seq(T) /\ Len(MinIOPrefix(web)) = Len(p) + Len(one)
  BY ONLY <1>1, <1>3, Joined
<1>5. \A j \in 1..Len(one) : MinIOPrefix(web)[Len(p) + j] = one[j]
  BY ONLY <1>1, <1>3, Joined
<1> QED BY <1>2, <1>4, <1>5

\* Each of them ends at its own location, whatever MinIO's prefix is.
LEMMA FrontendFound ==
  ASSUME NEW web, NEW S, GetMinIOProxyPath(web) \in Seq(S), Len(GetMinIOProxyPath(web)) > 0,
         NEW l \in Fixed
  PROVE  MergeSlashes(l.path) = l.path /\ Destination(web, l.path) = l.to
<1>1. l.path \in Seq(Token) /\ Len(l.path) \in Nat /\ Len(l.path) > 0
  <2> DEFINE k == Len(l.path)
  <2>1. l.path \in Seq(Token) /\ k \in {1, 2, 6}
    BY FixedLocations
  <2> HIDE DEF k
  <2>2. k \in Nat /\ k > 0
    BY ONLY <2>1
  <2> QED BY <2>1, <2>2 DEF k
<1>2. MergeSlashes(l.path) = l.path
  BY <1>1, FixedPaths, NothingMerged
<1>3. l \in buildLocationBlocks(web)
  BY DEF buildLocationBlocks, Fixed
<1>4. IsPrefix(l.path, l.path)
  BY <1>1, IsPrefixIf
<1>5. ASSUME NEW m \in Fixed, IsPrefix(m.path, l.path), m # l
      PROVE  Len(m.path) \in Nat /\ Len(m.path) < Len(l.path)
  <2>1. m.path \in Seq(Token) /\ Len(m.path) \in Nat /\ Len(m.path) > 0
    <3> DEFINE k == Len(m.path)
    <3>1. m.path \in Seq(Token)
      BY ONLY m \in Fixed, FixedLocations
    <3>2. k \in {1, 2, 6}
      BY ONLY m \in Fixed, FixedLocations
    <3> HIDE DEF k
    <3>3. k \in Nat /\ k > 0
      BY ONLY <3>2
    <3> QED BY ONLY <3>1, <3>3 DEF k
  <2>2. Len(m.path) <= Len(l.path) /\ \A i \in 1..Len(m.path) : m.path[i] = l.path[i]
    BY <1>1, <1>5, <2>1, PrefixHas
  <2>3. m.path[Len(m.path)] = l.path[Len(m.path)]
    BY <2>1, <2>2
  <2>4. Len(m.path) # Len(l.path)
    BY <1>5, <2>3, FixedLocations
  <2> QED BY <1>1, <2>1, <2>2, <2>4
<1>6. ASSUME NEW m, m.path = MinIOPrefix(web), IsPrefix(m.path, l.path)
      PROVE  Len(m.path) \in Nat /\ Len(m.path) < Len(l.path)
  <2>1. PICK T : m.path \in Seq(T) /\ Len(m.path) > 1 /\ m.path[Len(m.path)] = "/"
    BY <1>6, MinIOPrefixIs
  <2>2. Len(m.path) <= Len(l.path) /\ \A i \in 1..Len(m.path) : m.path[i] = l.path[i]
    BY <1>1, <1>6, <2>1, PrefixHas
  <2>3. Len(m.path) \in Nat /\ l.path[Len(m.path)] = "/"
    BY <2>1, <2>2
  <2>4. l \in APILocations \/ l.path[Len(l.path)] # "/" \/ Len(l.path) = 1
    <3>1. CASE l = Location(<<"/">>, "html")
      <4>1. l.path = <<"/">>
        BY <3>1, LocationHas
      <4> QED BY <4>1
    <3>2. CASE l = Location(<<"/", "health">>, "health")
      <4>1. l.path = <<"/", "health">>
        BY <3>2, LocationHas
      <4> QED BY <4>1
    <3> QED BY <3>1, <3>2 DEF Fixed
  <2>5. Len(m.path) # Len(l.path)
    BY <2>1, <2>3, <2>4, FixedLocations
  <2> QED BY <1>1, <2>2, <2>3, <2>5
<1>7. ASSUME NEW m \in buildLocationBlocks(web), IsPrefix(m.path, l.path), m # l
      PROVE  Len(m.path) \in Nat /\ Len(m.path) < Len(l.path)
  <2>1. m \in Fixed \/ m.path = MinIOPrefix(web)
    BY Blocks, LocationHas
  <2> QED BY <1>5, <1>6, <1>7, <2>1
<1>8. Destination(web, l.path) = l.to
  <2>1. l.path \notin ExactLocations /\ \A i \in DOMAIN Patterns : ~MatchesPattern(Patterns[i], l.path)
    BY FixedPaths
  <2> QED BY <1>1, <1>3, <1>4, <1>7, <2>1, DestinationIs
<1> QED BY <1>2, <1>8

-----------------------------------------------------------------------------
(* Who answers.                                                            *)

\* The ports of the container that serve the frontend.
Serving(web, port) == (port = 80 /\ ~WebHTTPS(web)) \/ (port = 443 /\ WebHTTPS(web))

LEMMA AnswerIs ==
  ASSUME NEW conf, HasNginxConfig(conf.web), NEW port, Serving(conf.web, port),
         NEW path, MergeSlashes(path) = path
  PROVE  Answer(conf, port, path) =
           IF Destination(conf.web, path) = "minio_backend"
             THEN <<ProxyScheme(conf), Destination(conf.web, path), Rewritten(conf.web, path)>>
             ELSE <<"http", Destination(conf.web, path), path>>
<1>1. ~(port = 80 /\ Redirects(conf.web)) /\ ~(port = 443 /\ ~WebHTTPS(conf.web))
  BY DEF Serving, Redirects
<1> QED BY <1>1 DEF Answer

LEMMA FrontendAnswers ==
  ASSUME NEW conf, HasNginxConfig(conf.web), NEW port, Serving(conf.web, port), NEW S,
         GetMinIOProxyPath(conf.web) \in Seq(S), Len(GetMinIOProxyPath(conf.web)) > 0,
         NEW l \in Fixed
  PROVE  Answer(conf, port, << >> \o l.path) = <<"http", l.to, l.path>>
<1>1. << >> \o l.path = l.path
  <2>1. l.path \in Seq(Token)
    BY FixedLocations
  <2> QED BY ONLY <2>1, ConcatEmptySeq
<1>2. MergeSlashes(l.path) = l.path /\ Destination(conf.web, l.path) = l.to /\ l.to # "minio_backend"
  BY FrontendFound, FixedPaths
<1>3. Answer(conf, port, l.path) = <<"http", l.to, l.path>>
  BY <1>2, AnswerIs
<1> QED BY <1>1, <1>3

\* The objects that are promised.
LEMMA ReachableIs ==
  ASSUME NEW web, WellFormed(GetMinIOProxyPath(web)), NEW o \in Reachable(web)
  PROVE  Object(o) /\ NoAsset(o, GetMinIOProxyPath(web) \o o)
<1> DEFINE p == GetMinIOProxyPath(web)
<1>1. /\ Plain(o) /\ ~HasExtension(o, {"js", "css", "html"})
      /\ HasExtension(o, Assets) => ProxyPath(web) = <<"/", "storage">>
  BY DEF Reachable
<1>2. Object(o)
  <2>1. STRING \subseteq Token /\ o \in Seq(STRING)
    BY <1>1 DEF Token, Plain
  <2>2. o \in Seq(Token)
    BY ONLY <2>1, SeqMonotonic
  <2> QED BY <1>1, <2>2 DEF Object, Plain
<1>3. ASSUME ProxyPath(web) = <<"/", "storage">> PROVE IsPrefix(<<"/", "storage", "/">>, p \o o)
  <2>1. p = <<"/", "storage">>
    <3>1. p \in Seq(Token) /\ Len(p) > 0
      BY <1>2, Tokens
    <3>2. p[1] = "/"
      BY DEF WellFormed, Plain
    <3> QED BY <1>3, <3>1, <3>2, ProxyPathIs
  <2> DEFINE s == <<"/", "storage", "/">>
  <2>2. p \o <<"/">> = s
    <3> DEFINE one == <<"/">>
               t == p \o one
    <3>1. p \in Seq(Token) /\ one \in Seq(Token)
      BY <2>1 DEF Token
    <3>2. /\ Len(p) = 2 /\ p[1] = "/" /\ p[2] = "storage" /\ Len(one) = 1 /\ one[1] = "/"
          /\ s \in Seq(Token) /\ Len(s) = 3 /\ s[1] = "/" /\ s[2] = "storage" /\ s[3] = "/"
      BY <2>1 DEF Token, s
    <3>3. t = p \o one
      OBVIOUS
    <3> HIDE DEF p, one, t
    <3>4. t \in Seq(Token) /\ Len(t) = Len(p) + Len(one)
      BY ONLY <3>1, <3>3, Joined
    <3>5. \A i \in 1..Len(p) : t[i] = p[i]
      BY ONLY <3>1, <3>3, Joined
    <3>6. \A j \in 1..Len(one) : t[Len(p) + j] = one[j]
      BY ONLY <3>1, <3>3, Joined
    <3>7. Len(t) = 3 /\ t[1] = "/" /\ t[2] = "storage" /\ t[3] = "/"
      BY ONLY <3>2, <3>4, <3>5, <3>6
    <3>8. \A i \in 1..Len(s) : s[i] = t[i]
      BY ONLY <3>2, <3>7
    <3>9. t = s
      BY ONLY <3>2, <3>4, <3>7, <3>8, SeqEqual
    <3> QED BY <3>9 DEF t, one
  <2> HIDE DEF s
  <2>3. IsPrefix(s, p \o o)
    BY <1>2, <2>2, PrefixLocation
  <2> QED BY <2>3 DEF s
<1> QED BY <1>1, <1>2, <1>3 DEF NoAsset

LEMMA ObjectAnswers ==
  ASSUME NEW conf, HasNginxConfig(conf.web), NEW port, Serving(conf.web, port),
         Enabled(conf.web.minioProxy), WellFormed(GetMinIOProxyPath(conf.web)),
         NEW o \in Reachable(conf.web)
  PROVE  Answer(conf, port, ProxyPath(conf.web) \o o) = <<ProxyScheme(conf), "minio_backend", o>>
<1> DEFINE p == GetMinIOProxyPath(conf.web)
           way == p \o o
<1>1. Object(o) /\ NoAsset(o, way)
  BY ReachableIs
<1>2. ProxyPath(conf.web) = p
  <2>1. p \in Seq(Token) /\ Len(p) > 0
    BY <1>1, Tokens
  <2>2. p[1] = "/"
    BY DEF WellFormed, Plain
  <2> QED BY <2>1, <2>2, ProxyPathIs
<1>3. /\ MergeSlashes(way) = way /\ Destination(conf.web, way) = "minio_backend"
      /\ Rewritten(conf.web, way) = o
  <2> DEFINE web == conf.web
  <2>1. Enabled(web.minioProxy) /\ p = GetMinIOProxyPath(web) /\ WellFormed(p)
    OBVIOUS
  <2> HIDE DEF way, web, p
  <2>2. way = p \o o
    BY DEF way
  <2> HIDE DEF p
  <2>3. MergeSlashes(way) = way
    BY ONLY <1>1, <2>1, <2>2, ObjectMerged
  <2>4. Destination(web, way) = "minio_backend"
    BY ONLY <1>1, <2>1, <2>2, ObjectFound
  <2>5. Rewritten(web, p \o o) = o
    BY ONLY <1>1, <2>1, ObjectRewritten
  <2> QED BY <2>2, <2>3, <2>4, <2>5 DEF web
<1> HIDE DEF way
<1>4. Answer(conf, port, way) = <<ProxyScheme(conf), "minio_backend", o>>
  BY <1>3, AnswerIs
<1> QED BY <1>2, <1>4 DEF way

-----------------------------------------------------------------------------
(* Where an address leads.                                                 *)

LEMMA NodePortEntrance ==
  ASSUME NEW web, svc # Nil, Typed(svc), svc.type = "NodePort", svc.https > 0 <=> WebHTTPS(web),
         NEW ip \in nodes, NEW protocol, NEW port, NEW path,
         \/ WebHTTPS(web) /\ protocol = "https" /\ port = svc.https
         \/ ~WebHTTPS(web) /\ protocol = "http" /\ port = svc.http
  PROVE  /\ Entrance(Address(protocol, ip, port, path)).ok
         /\ Serving(web, Entrance(Address(protocol, ip, port, path)).port)
<1> DEFINE a == Address(protocol, ip, port, path)
<1>1. a.protocol = protocol /\ a.host = ip /\ a.port = port
  BY DEF Address
<1>2. svc.http \in Nat \ {0} /\ svc.https \in Nat /\ svc.http # svc.https
  <2>1. svc.http # svc.https /\ svc.http \in Ports /\ svc.https \in Ports \cup {0}
    BY ONLY Typed(svc), svc.type = "NodePort" DEF Typed
  <2>2. \A n \in Ports : n \in Nat \ {0}
    BY ONLY ExposureAssumption DEF ExposureAssumption
  <2> QED BY ONLY <2>1, <2>2
<1> HIDE DEF a
<1>3. CASE WebHTTPS(web) /\ protocol = "https" /\ port = svc.https
  <2>1. /\ a.port \in {svc.https} \ {0} /\ a.port \notin {svc.http} \ {0} /\ a.port # 0
        /\ a.protocol = "https" /\ a.host \in nodes
    <3>1. svc.https > 0
      BY ONLY <1>3, svc.https > 0 <=> WebHTTPS(web)
    <3> QED BY ONLY <1>1, <1>2, <1>3, <3>1, ip \in nodes
  <2>2. Entrance(a) = [port |-> 443, ok |-> a.protocol = "https"]
    BY ONLY <2>1, svc # Nil, Zenon DEF Entrance
  <2>3. Entrance(a).ok /\ Entrance(a).port = 443
    <3>1. (a.protocol = "https") = TRUE
      BY ONLY <2>1, Zenon
    <3>2. Entrance(a) = [port |-> 443, ok |-> TRUE]
      BY ONLY <2>2, <3>1, Zenon
    <3> QED BY ONLY <3>2
  <2> QED BY <1>3, <2>3, Zenon DEF Serving, a
<1>4. CASE ~WebHTTPS(web) /\ protocol = "http" /\ port = svc.http
  <2>1. /\ a.port \in {svc.http} \ {0} /\ a.port \notin {svc.https} \ {0} /\ a.port # 0
        /\ a.protocol = "http" /\ a.host \in nodes
    BY ONLY <1>1, <1>2, <1>4, ip \in nodes
  <2>2. Entrance(a) = [port |-> 80, ok |-> a.protocol = "http"]
    BY ONLY <2>1, svc # Nil, Zenon DEF Entrance
  <2>3. Entrance(a).ok /\ Entrance(a).port = 80
    <3>1. (a.protocol = "http") = TRUE
      BY ONLY <2>1, Zenon
    <3>2. Entrance(a) = [port |-> 80, ok |-> TRUE]
      BY ONLY <2>2, <3>1, Zenon
    <3> QED BY ONLY <3>2
  <2> QED BY <1>4, <2>3, Zenon DEF Serving, a
<1> QED BY <1>3, <1>4

LEMMA IngressEntrance ==
  ASSUME svc # Nil, NEW conf \in Specs, ValidateKubeNova(conf), conf.web.exposeType = "ingress",
         ingress = buildWebIngress(conf.web), NEW path
  PROVE  /\ Entrance(IngressAddress(conf.web, path)).ok
         /\ Serving(conf.web, Entrance(IngressAddress(conf.web, path)).port)
<1> DEFINE a == IngressAddress(conf.web, path)
           tls == Enabled(conf.web.ingress.tls)
<1>1. a.protocol = Protocol(tls) /\ a.host = conf.web.ingress.host /\ a.port = 0
  BY DEF IngressAddress, Address
<1>2. ingress # Nil /\ ingress.host = conf.web.ingress.host
  BY NilAssumption DEF buildWebIngress
<1>3. tls => conf.web.ingress.tls.secretName # ""
  BY Zenon DEF ValidateKubeNova, ValidateWebConfig
<1>4. (a.protocol = "https") = (ingress.secret # "")
  <2>1. ingress.secret = IF tls THEN conf.web.ingress.tls.secretName ELSE ""
    BY DEF buildWebIngress
  <2>2. a.protocol = "https" <=> tls
    BY <1>1 DEF Protocol
  <2> HIDE DEF tls, a
  <2>3. (a.protocol = "https") <=> (ingress.secret # "")
    BY <1>3, <2>1, <2>2, Zenon
  <2> QED BY <2>3, Zenon
<1> HIDE DEF a
<1>5. a.port \notin {svc.http} \ {0} /\ a.port \notin {svc.https} \ {0}
  BY <1>1
<1>6. Entrance(a) = [port |-> 80, ok |-> TRUE]
  <2>1. Entrance(a) = [port |-> 80, ok |-> (a.protocol = "https") = (ingress.secret # "")]
    BY <1>1, <1>2, <1>5, Zenon DEF Entrance
  <2> QED BY <1>4, <2>1, Zenon
<1>7. ~WebHTTPS(conf.web)
  BY DEF WebHTTPS
<1>8. Entrance(a).ok /\ Entrance(a).port = 80
  BY ONLY <1>6
<1> QED BY <1>7, <1>8, Zenon DEF Serving, a

-----------------------------------------------------------------------------
(* The invariant.                                                          *)

LEMMA PrefixIs ==
  ASSUME NEW conf \in Specs
  PROVE  /\ GetMinIOProxyPath(conf.web) \in Seq(Token)
         /\ Len(GetMinIOProxyPath(conf.web)) > 0
<1> DEFINE proxy == conf.web.minioProxy
<1>1. proxy \in Optional(MinIOProxyConfig)
  <2>1. conf.web \in WebConfig
    BY SpecsAssumption DEF KubeNovaSpec
  <2> QED BY <2>1 DEF WebConfig
<1> HIDE DEF proxy
<1>2. CASE proxy = Nil \/ proxy.pathPrefix = << >>
  <2>1. GetMinIOProxyPath(conf.web) = <<"/", "storage">>
    BY <1>2 DEF GetMinIOProxyPath, proxy
  <2>2. "/" \in Token /\ "storage" \in Token
    BY DEF Token
  <2> QED BY <2>1, <2>2
<1>3. CASE ~(proxy = Nil \/ proxy.pathPrefix = << >>)
  <2>1. GetMinIOProxyPath(conf.web) = proxy.pathPrefix
    BY <1>3 DEF GetMinIOProxyPath, proxy
  <2>2. proxy.pathPrefix \in Seq(STRING)
    BY <1>1, <1>3 DEF Optional, MinIOProxyConfig
  <2>3. proxy.pathPrefix \in Seq(Token) /\ Len(proxy.pathPrefix) > 0
    <3>1. STRING \subseteq Token
      BY DEF Token
    <3>2. proxy.pathPrefix \in Seq(Token)
      BY ONLY <2>2, <3>1, SeqMonotonic
    <3>3. Len(proxy.pathPrefix) > 0
      <4> DEFINE path == proxy.pathPrefix
      <4>1. path \in Seq(STRING) /\ path # << >>
        BY <1>3, <2>2
      <4> HIDE DEF path
      <4>2. Len(path) > 0
        BY ONLY <4>1, EmptySeq
      <4> QED BY <4>2 DEF path
    <3> QED BY <3>2, <3>3
  <2> QED BY <2>1, <2>3
<1> QED BY <1>2, <1>3

\* The Services that buildWebService asks for.
LEMMA BuiltTyped ==
  ASSUME NEW web, NEW s \in buildWebService(web)
  PROVE  Typed(s)
<1>1. CASE web.exposeType = "ingress"
  <2>1. s = [type |-> "ClusterIP", http |-> 0, https |-> 0]
    BY <1>1 DEF buildWebService
  <2> QED BY <2>1 DEF Typed
<1>2. CASE web.exposeType # "ingress"
  <2>1. /\ s.type = "NodePort" /\ s.http \in Ports /\ s.http # s.https
        /\ s.https \in IF WebHTTPS(web) THEN Ports ELSE {0}
    BY <1>2 DEF buildWebService
  <2> QED BY <2>1 DEF Typed
<1> QED BY <1>1, <1>2

LEMMA NodeFound ==
  ASSUME nodes \subseteq Nodes, up \subseteq nodes
  PROVE  getNodeIP \subseteq Nodes \cup {NoNode}
BY DEF getNodeIP

LEMMA PortIs ==
  ASSUME NEW web, svc # Nil => Typed(svc)
  PROVE  getWebNodePort(web, svc) \in Ports \cup {0, ConfiguredPort(web)}
<1>1. CASE svc = Nil
  BY <1>1 DEF getWebNodePort
<1>2. CASE svc # Nil
  <2>1. svc.http \in Ports \cup {0} /\ svc.https \in Ports \cup {0}
    BY <1>2 DEF Typed
  <2> QED BY <2>1 DEF getWebNodePort
<1> QED BY <1>1, <1>2

LEMMA ExposureInvInit == Init => ExposureInv
BY DEF Init, ExposureInv

LEMMA ExposureInvStep ==
  ASSUME ExposureInv, [Next]_vars
  PROVE  ExposureInv'
<1>1. CASE Begin
  <2>1. /\ ready' = ready /\ kn' = spec /\ edited' = FALSE /\ pc' = "secret" /\ spec' = spec
        /\ UNCHANGED <<svc, ingress, endpoint, url, nodes, up, informed>> /\ ~ready /\ ValidateKubeNova(spec)
    BY <1>1 DEF Begin
  <2> QED BY <2>1 DEF ExposureInv, SecretFrom
<1>2. CASE ReconcileSecret
  <2>1. /\ UNCHANGED <<spec, kn, edited, ready, svc, ingress, url, nodes, up>>
        /\ pc = "secret" /\ pc' = "service" /\ informed' = (svc # Nil)
    BY <1>2 DEF ReconcileSecret
  <2>2. PICK ip \in getNodeIP : endpoint' = BuildSecret(kn, ip, getWebNodePort(kn.web, svc))
    BY <1>2 DEF ReconcileSecret
  <2>3. ip \in Nodes \cup {NoNode}
    BY <2>2, NodeFound DEF ExposureInv
  <2>4. getWebNodePort(kn.web, svc) \in Ports \cup {0, ConfiguredPort(kn.web)}
    BY PortIs DEF ExposureInv
  <2>5. SecretFrom(kn)'
    BY <2>1, <2>2, <2>3, <2>4 DEF SecretFrom
  <2>6. ~ready /\ (informed' => svc' # Nil)
    BY <2>1 DEF ExposureInv
  <2> QED BY <2>1, <2>5, <2>6 DEF ExposureInv
<1>3. CASE ReconcileWebService
  <2>1. /\ UNCHANGED <<spec, edited, ingress, endpoint, url, nodes, up>> /\ pc = "service"
    BY <1>3 DEF ReconcileWebService
  <2>2. CASE UNCHANGED <<kn, ready, svc, informed>> /\ pc' = "ingress"
    BY <2>1, <2>2 DEF ExposureInv, SecretFrom
  <2>3. ASSUME NEW s \in buildWebService(kn.web), svc' = s, informed' = FALSE, pc' = "ingress",
               UNCHANGED <<kn, ready>>
        PROVE  ExposureInv'
    <3>1. Typed(svc)'
      BY <2>3, BuiltTyped DEF Typed
    <3>2. SecretFrom(kn)'
      BY <2>1, <2>3 DEF ExposureInv, SecretFrom
    <3> QED BY <2>1, <2>3, <3>1, <3>2 DEF ExposureInv
  <2>4. CASE Abandon /\ UNCHANGED <<svc, informed>>
    BY <2>1, <2>4 DEF ExposureInv, Abandon
  <2> QED BY <1>3, <2>2, <2>3, <2>4 DEF ReconcileWebService
<1>4. CASE ReconcileIngress
  <2>1. /\ UNCHANGED <<spec, kn, edited, ready, svc, endpoint, url, nodes, up, informed>>
        /\ pc = "ingress" /\ pc' = "check"
    BY <1>4 DEF ReconcileIngress
  <2> QED BY <2>1 DEF ExposureInv, SecretFrom
<1>5. CASE CheckComponentStatus
  <2>1. /\ UNCHANGED <<spec, edited, svc, ingress, endpoint, nodes, up, informed>>
        /\ pc = "check" /\ pc' = "idle" /\ ready' \in {FALSE, ~edited}
    BY <1>5 DEF CheckComponentStatus
  <2>2. PICK ip \in getNodeIP : url' = WebURL(kn.web, svc, ip)
    BY <1>5 DEF CheckComponentStatus
  <2>3. ip \in Nodes \cup {NoNode}
    BY <2>2, NodeFound DEF ExposureInv
  <2>4. SecretFrom(kn) /\ ValidateKubeNova(kn) /\ (~edited => kn = spec)
    BY <2>1 DEF ExposureInv
  <2>5. CASE edited
    BY <2>1, <2>5 DEF ExposureInv
  <2>6. CASE ~edited
    <3>1. SecretFrom(spec)'
      BY <2>1, <2>4, <2>6 DEF SecretFrom
    <3>2. url' = WebURL(spec'.web, svc', ip)
      BY <2>1, <2>2, <2>4, <2>6
    <3>3. ValidateKubeNova(spec')
      BY <2>1, <2>4, <2>6
    <3> QED BY <2>1, <2>3, <3>1, <3>2, <3>3 DEF ExposureInv
  <2> QED BY <2>5, <2>6
<1>6. CASE EditSpec
  <2>1. /\ spec' \in Specs /\ edited' = TRUE /\ ready' = FALSE
        /\ UNCHANGED <<kn, pc, svc, endpoint, url, nodes, up, informed>>
    BY <1>6 DEF EditSpec
  <2> QED BY <2>1 DEF ExposureInv, SecretFrom
<1>7. CASE NodesChange
  <2>1. /\ nodes' \subseteq Nodes /\ up' \subseteq nodes'
        /\ UNCHANGED <<spec, kn, edited, pc, ready, svc, endpoint, url, informed>>
    BY <1>7 DEF NodesChange
  <2> QED BY <2>1 DEF ExposureInv, SecretFrom
<1>8. CASE ServiceDeleted
  <2>1. /\ svc' = Nil /\ informed' = FALSE
        /\ UNCHANGED <<spec, kn, edited, pc, ready, endpoint, url, nodes, up>>
    BY <1>8 DEF ServiceDeleted
  <2> QED BY <2>1 DEF ExposureInv, SecretFrom
<1>9. CASE UNCHANGED vars
  BY <1>9 DEF vars, ExposureInv, SecretFrom
<1> QED BY <1>1, <1>2, <1>3, <1>4, <1>5, <1>6, <1>7, <1>8, <1>9 DEF Next, Pass

\* Secret, Service, status and the pass under way agree as far as ExposureInv says,
\* through every edit, change of nodes, and deletion of the Service.
THEOREM InvariantHolds ==
  Spec => []ExposureInv
<1>1. Init => ExposureInv
  BY ExposureInvInit
<1>2. ExposureInv /\ [Next]_vars => ExposureInv'
  BY ExposureInvStep
<1> QED BY <1>1, <1>2, PTL DEF Spec

-----------------------------------------------------------------------------
(* The addresses.                                                          *)

LEMMA NodePortMeans ==
  ASSUME ExposureInv, OnNodePort
  PROVE  /\ spec \in Specs /\ ready /\ spec.web.exposeType = "nodeport"
         /\ HasNginxConfig(spec.web) /\ svc # Nil /\ Typed(svc) /\ svc.type = "NodePort"
         /\ (svc.https > 0 <=> WebHTTPS(spec.web))
         /\ svc.http > 0
<1>1. svc # Nil /\ Typed(svc) /\ svc.type = "NodePort"
  BY DEF ExposureInv, OnNodePort
<1>2. svc.https > 0 <=> WebHTTPS(spec.web)
  BY Zenon DEF OnNodePort
<1>3. svc.http > 0
  <2>1. svc.http \in Ports
    BY ONLY <1>1 DEF Typed
  <2>2. \A n \in Ports : n \in Nat \ {0}
    BY ONLY ExposureAssumption DEF ExposureAssumption
  <2> QED BY ONLY <2>1, <2>2
<1> QED BY <1>1, <1>2, <1>3 DEF ExposureInv, OnNodePort

\* The WebURL of a NodePort leads to the container's port that serves.
LEMMA URLEntrance ==
  ASSUME ExposureInv, OnNodePort, url.host \in nodes
  PROVE  /\ Entrance(url).ok /\ Serving(spec.web, Entrance(url).port)
         /\ url.path = << >>
<1>1. /\ ready /\ spec.web.exposeType = "nodeport" /\ svc # Nil /\ Typed(svc)
      /\ svc.type = "NodePort" /\ (svc.https > 0 <=> WebHTTPS(spec.web)) /\ svc.http > 0
  BY NodePortMeans
<1>2. PICK ip \in Nodes \cup {NoNode} : url = WebURL(spec.web, svc, ip)
  BY <1>1 DEF ExposureInv
<1>3. CASE WebHTTPS(spec.web)
  <2>1. url = Address("https", ip, svc.https, << >>)
    BY <1>1, <1>2, <1>3 DEF WebURL
  <2>2. url.path = << >> /\ ip \in nodes
    BY <2>1 DEF Address
  <2> QED BY <1>1, <1>3, <2>1, <2>2, NodePortEntrance
<1>4. CASE ~WebHTTPS(spec.web)
  <2>1. url = Address("http", ip, svc.http, << >>)
    BY <1>1, <1>2, <1>4 DEF WebURL
  <2>2. url.path = << >> /\ ip \in nodes
    BY <2>1 DEF Address
  <2> QED BY <1>1, <1>4, <2>1, <2>2, NodePortEntrance
<1> QED BY <1>3, <1>4

\* What follows from an address that leads to a port that serves.
LEMMA FrontendBehind ==
  ASSUME spec \in Specs, HasNginxConfig(spec.web), Entrance(url).ok,
         Serving(spec.web, Entrance(url).port), url.path = << >>
  PROVE  FrontendServed
<1>1. ASSUME NEW l \in Fixed PROVE Follow(url, l.path) = <<"http", l.to, l.path>>
  <2>1. Follow(url, l.path) = Answer(spec, Entrance(url).port, << >> \o l.path)
    BY DEF Follow
  <2>2. GetMinIOProxyPath(spec.web) \in Seq(Token) /\ Len(GetMinIOProxyPath(spec.web)) > 0
    BY PrefixIs
  <2> QED BY <2>1, <2>2, FrontendAnswers
<1>2. Location(<<"/">>, "html") \in Fixed /\ APILocations \subseteq Fixed
  BY DEF Fixed
<1>3. Follow(url, <<"/">>) = <<"http", "html", <<"/">>>>
  <2> DEFINE l == Location(<<"/">>, "html")
  <2>1. l.path = <<"/">> /\ l.to = "html" /\ l \in Fixed
    BY <1>2, LocationHas
  <2> HIDE DEF l
  <2>2. Follow(url, l.path) = <<"http", l.to, l.path>>
    BY <1>1, <2>1
  <2> QED BY <2>1, <2>2
<1>4. \A l \in APILocations : Follow(url, l.path) = <<"http", l.to, l.path>>
  BY <1>1, <1>2
<1> QED BY <1>3, <1>4 DEF FrontendServed

LEMMA ObjectsBehind ==
  ASSUME HasNginxConfig(spec.web), Entrance(endpoint).ok,
         Serving(spec.web, Entrance(endpoint).port),
         endpoint.path = ProxyPath(spec.web), Enabled(spec.web.minioProxy),
         WellFormed(GetMinIOProxyPath(spec.web))
  PROVE  ObjectsServed
<1> SUFFICES ASSUME NEW object \in Reachable(spec.web)
             PROVE  Follow(endpoint, object) = <<ProxyScheme(spec), "minio_backend", object>>
  BY DEF ObjectsServed
<1>1. Follow(endpoint, object) = Answer(spec, Entrance(endpoint).port, ProxyPath(spec.web) \o object)
  BY DEF Follow
<1> QED BY <1>1, ObjectAnswers

\* The endpoint in the Secret, if it is derived.
LEMMA EndpointIs ==
  ASSUME NEW ip, NEW port, endpoint = BuildSecret(spec, ip, port), DerivedEndpoint
  PROVE  endpoint = IF spec.web.exposeType = "ingress"
                      THEN IngressAddress(spec.web, ProxyPath(spec.web))
                      ELSE Address(Protocol(WebHTTPS(spec.web)), ip, port, ProxyPath(spec.web))
BY Zenon DEF DerivedEndpoint, BuildSecret, GetMinIOEndpointForBackendWithNodeInfo

\* Once Ready the WebURL of a NodePort serves the frontend and its APIs for as
\* long as the node is there, whatever the specs, nodes and ports are.
THEOREM URLHolds ==
  Spec => []URLServed
<1>1. ExposureInv => URLServed
  <2> SUFFICES ASSUME ExposureInv, OnNodePort, url.host \in nodes PROVE FrontendServed
    BY DEF URLServed
  <2>1. spec \in Specs /\ HasNginxConfig(spec.web)
    BY NodePortMeans
  <2> QED BY <2>1, URLEntrance, FrontendBehind
<1> QED BY <1>1, InvariantHolds, PTL

\* The endpoint in the Secret leads to the objects if a pass derived it from the
\* Service, whatever the objects, specs, nodes and ports are.
THEOREM EndpointHolds ==
  Spec => []EndpointFollowsService
<1>1. ExposureInv => EndpointFollowsService
  <2> SUFFICES ASSUME ExposureInv, OnNodePort, DerivedEndpoint, informed, endpoint.host \in nodes
               PROVE  ObjectsServed
    BY DEF EndpointFollowsService
  <2>1. /\ spec \in Specs /\ ready /\ spec.web.exposeType = "nodeport" /\ svc # Nil /\ Typed(svc)
        /\ svc.type = "NodePort" /\ (svc.https > 0 <=> WebHTTPS(spec.web)) /\ svc.http > 0
    BY NodePortMeans
  <2>2. PICK ip \in Nodes \cup {NoNode}, port \in Ports \cup {0, ConfiguredPort(spec.web)} :
          endpoint = BuildSecret(spec, ip, port) /\ port = getWebNodePort(spec.web, svc)
    BY <2>1 DEF ExposureInv, SecretFrom
  <2>3. endpoint = Address(Protocol(WebHTTPS(spec.web)), ip, port, ProxyPath(spec.web))
    BY <2>1, <2>2, EndpointIs
  <2>4. endpoint.path = ProxyPath(spec.web) /\ ip \in nodes
    BY <2>3 DEF Address
  <2>5. Entrance(endpoint).ok /\ Serving(spec.web, Entrance(endpoint).port)
    <3>1. CASE WebHTTPS(spec.web)
      <4>1. port = svc.https /\ Protocol(WebHTTPS(spec.web)) = "https"
        BY <2>1, <2>2, <3>1 DEF getWebNodePort, Protocol
      <4> QED BY <2>1, <2>3, <2>4, <3>1, <4>1, NodePortEntrance
    <3>2. CASE ~WebHTTPS(spec.web)
      <4>1. port = svc.http /\ Protocol(WebHTTPS(spec.web)) = "http"
        BY <2>1, <2>2, <3>2 DEF getWebNodePort, Protocol
      <4> QED BY <2>1, <2>3, <2>4, <3>2, <4>1, NodePortEntrance
    <3> QED BY <3>1, <3>2
  <2>6. Enabled(spec.web.minioProxy)
    BY Zenon DEF DerivedEndpoint
  <2>7. WellFormed(GetMinIOProxyPath(spec.web)) /\ HasNginxConfig(spec.web)
    BY Zenon DEF DerivedEndpoint, OnNodePort
  <2> QED BY <2>4, <2>5, <2>6, <2>7, ObjectsBehind
<1> QED BY <1>1, InvariantHolds, PTL

\* Behind an Ingress that is as the spec asks for, both addresses hold, for all of
\* the same.
THEOREM IngressHolds ==
  Spec => []IngressServed
<1>1. ExposureInv => IngressServed
  <2> SUFFICES ASSUME ExposureInv, OnIngress
               PROVE  FrontendServed /\ (DerivedEndpoint => ObjectsServed)
    BY DEF IngressServed
  <2>1. /\ spec \in Specs /\ ready /\ spec.web.exposeType = "ingress" /\ svc # Nil
        /\ ingress = buildWebIngress(spec.web) /\ ValidateKubeNova(spec) /\ HasNginxConfig(spec.web)
    BY DEF ExposureInv, OnIngress
  <2>2. PICK ip \in Nodes \cup {NoNode} : url = WebURL(spec.web, svc, ip)
    BY <2>1 DEF ExposureInv
  <2>3. url = IngressAddress(spec.web, << >>)
    BY <2>1, <2>2 DEF WebURL
  <2>4. url.path = << >>
    BY <2>3 DEF IngressAddress, Address
  <2>5. Entrance(url).ok /\ Serving(spec.web, Entrance(url).port)
    BY <2>1, <2>3, IngressEntrance
  <2>6. FrontendServed
    BY <2>1, <2>4, <2>5, FrontendBehind
  <2>7. ASSUME DerivedEndpoint PROVE ObjectsServed
    <3>1. PICK node, port : endpoint = BuildSecret(spec, node, port)
      BY <2>1 DEF ExposureInv, SecretFrom
    <3>2. endpoint = IngressAddress(spec.web, ProxyPath(spec.web))
      BY <2>1, <2>7, <3>1, EndpointIs
    <3>3. endpoint.path = ProxyPath(spec.web)
      BY <3>2 DEF IngressAddress, Address
    <3>4. Entrance(endpoint).ok /\ Serving(spec.web, Entrance(endpoint).port)
      BY <2>1, <3>2, IngressEntrance
    <3>5. Enabled(spec.web.minioProxy)
      BY <2>7, Zenon DEF DerivedEndpoint
    <3>6. WellFormed(GetMinIOProxyPath(spec.web)) /\ HasNginxConfig(spec.web)
      BY <2>1, <2>7, Zenon DEF DerivedEndpoint
    <3> QED BY <3>3, <3>4, <3>5, <3>6, ObjectsBehind
  <2> QED BY <2>6, <2>7
<1> QED BY <1>1, InvariantHolds, PTL
=============================================================================
