---------------------------- MODULE DataStoreKey ----------------------------
(***************************************************************************)
(* The keys of the data stores (ipfs/datastore/src/key.rs), the prefix     *)
(* transform that moves them (impls/transform.rs) and the filters and      *)
(* orders of a query (query/).  A string is a sequence of characters.      *)
(***************************************************************************)
EXTENDS Integers, Sequences

SLASH == <<"/">>
COLON == <<":">>
Dot == <<".">>
DotDot == <<".", ".">>

\* The characters the operations tell apart, in the order of their bytes.
Bytes == <<".", "/", ":", "a">>
Byte(c) == CHOOSE i \in DOMAIN Bytes : Bytes[i] = c
Char == {Bytes[i] : i \in DOMAIN Bytes}
Str == Seq(Char)

-----------------------------------------------------------------------------
(* Strings.                                                                *)

\* Sequences of characters and of segments, from their end.  (SequencesExt has these too;
\* what it brings with it slows the proofs about keys down.)
Front(s) == SubSeq(s, 1, Len(s) - 1)
Last(s) == s[Len(s)]
IsPrefix(s, t) == Len(s) <= Len(t) /\ \A i \in 1 .. Len(s) : s[i] = t[i]
Reverse(s) == [i \in 1 .. Len(s) |-> s[Len(s) + 1 - i]]

\* str::split('/')
Extended(segs, c) == IF c = "/" THEN Append(segs, <<>>)
                     ELSE Append(Front(segs), Append(Last(segs), c))
Split[s \in Str] == IF s = <<>> THEN <<<<>>>> ELSE Extended(Split[Front(s)], Last(s))

\* [&str]::join("/")
Join[segs \in Seq(Str)] == IF segs = <<>> THEN <<>>
                           ELSE IF Len(segs) = 1 THEN Last(segs)
                           ELSE Join[Front(segs)] \o SLASH \o Last(segs)

\* Ord of slices: the first place where they differ, or the shorter one first.
Lexicographic(Less(_, _), s, t) == \E i \in 1 .. Len(t) :
    /\ \A j \in 1 .. i - 1 : j <= Len(s) /\ s[j] = t[j]
    /\ i > Len(s) \/ Less(s[i], t[i])
ByteLess(c, d) == Byte(c) < Byte(d)
StrLess(s, t) == Lexicographic(ByteLess, s, t)

\* The crate path_clean, for a path that starts with "/": empty and "." segments go,
\* ".." takes the segment before it along.
Entered(done, seg) == IF seg \in {<<>>, Dot} THEN done
                      ELSE IF seg # DotDot THEN Append(done, seg)
                      ELSE IF done = <<>> THEN done ELSE Front(done)
Resolve[segs \in Seq(Str)] == IF segs = <<>> THEN <<>> ELSE Entered(Resolve[Front(segs)], Last(segs))
path_clean(path) == SLASH \o Join[Resolve[Split[path]]]

-----------------------------------------------------------------------------
(* Key.  A key is its string.                                              *)

\* (The mutant keeps ".." at the root.)
clean_KeepsDots(s) == IF s = <<>> THEN SLASH ELSE
    SLASH \o Join[SelectSeq(Split[s], LAMBDA seg : seg \notin {<<>>, Dot})]
clean(s) == IF s = <<>> THEN SLASH
            ELSE IF Head(s) = "/" THEN path_clean(s)
            ELSE path_clean(SLASH \o s)

new(s) == clean(s)

\* new_unchecked panics for a string that is not a key at first sight.
Panic == <<"panic">>
new_unchecked(s) == IF s = <<>> THEN SLASH
                    ELSE IF Head(s) # "/" \/ (Len(s) > 1 /\ Last(s) = "/") THEN Panic
                    ELSE s

with_namespaces(namespaces) == new(Join[namespaces])
is_root(key) == key = SLASH
list(key) == IF is_root(key) THEN <<>> ELSE Tail(Split[key])
reverse(key) == with_namespaces(Reverse(list(key)))

\* (The mutant compares the strings.)
cmp_Less_Bytes(key, other) == StrLess(key, other)
cmp_Less(key, other) == Lexicographic(StrLess, list(key), list(other))

base_namespace(key) == IF list(key) = <<>> THEN <<>> ELSE Last(list(key))

\* rfind(':')
rfind(s) == CHOOSE i \in 0 .. Len(s) : /\ i > 0 => s[i] = ":"
                                       /\ \A j \in i + 1 .. Len(s) : s[j] # ":"
namespace_type(namespace) == SubSeq(namespace, 1, rfind(namespace) - 1)
namespace_value(namespace) == SubSeq(namespace, rfind(namespace) + 1, Len(namespace))
type(key) == namespace_type(base_namespace(key))
name(key) == namespace_value(base_namespace(key))

instance(key, s) == new(key \o COLON \o s)

\* (The mutant pops nothing from a key of two namespaces.)
parent_OffByOne(key) ==
    IF Len(list(key)) <= 1 THEN new(SLASH)
    ELSE IF Len(list(key)) = 2 THEN key ELSE new(Join[Front(list(key))])
parent(key) == IF Len(list(key)) <= 1 THEN new(SLASH) ELSE new(Join[Front(list(key))])

path(key) == new(parent(key) \o SLASH \o type(key))

\* (The mutant has no case for the root as the child.)
child_RootAppended(key, c) ==
    IF is_root(key) THEN new(c) ELSE new_unchecked(key \o c)
child(key, c) == IF is_root(key) THEN new(c)
                 ELSE IF is_root(c) THEN key
                 ELSE new_unchecked(key \o c)

\* (The mutant does not look at the character after the prefix.)
is_ancestor_of_AnyPrefix(key, descendant) ==
    /\ Len(descendant) > Len(key)
    /\ is_root(key) \/ IsPrefix(key, descendant)
is_ancestor_of(key, descendant) ==
    /\ Len(descendant) > Len(key)
    /\ \/ is_root(key)
       \/ IsPrefix(key, descendant) /\ descendant[Len(key) + 1] = "/"
is_descendant_of(key, ancestor) == is_ancestor_of(ancestor, key)
is_top_level(key) == Len(list(key)) <= 1

-----------------------------------------------------------------------------
(* PrefixTransform.                                                        *)

convert_key(prefix, key) == child(prefix, key)

\* (The mutant strips the separator too.)
invert_key_NoSlash(prefix, key) == IF is_root(prefix) THEN key
    ELSE IF ~is_ancestor_of(prefix, key) THEN Panic
    ELSE new_unchecked(SubSeq(key, Len(prefix) + 2, Len(key)))
invert_key(prefix, key) == IF is_root(prefix) THEN key
    ELSE IF ~is_ancestor_of(prefix, key) THEN Panic
    ELSE new_unchecked(SubSeq(key, Len(prefix) + 1, Len(key)))

-----------------------------------------------------------------------------
(* Queries.  An entry has a key and a value, a sequence of bytes.          *)

Entry(k, v) == [key |-> k, value |-> v]

\* What each FilterOp asks of the comparison of an entry with the filter's own key or
\* value.
FilterOp(op, less, equal, greater) ==
    CASE op = "Equal" -> equal
      [] op = "NotEqual" -> ~equal
      [] op = "GreaterThan" -> greater
      [] op = "GreaterThanEqual" -> ~less
      [] op = "LessThan" -> less
      [] op = "LessThanEqual" -> ~greater
FilterKeyCompare(key, op, entry) ==
    FilterOp(op, cmp_Less(entry.key, key), entry.key = key, cmp_Less(key, entry.key))
FilterValueCompare(value, op, entry) ==
    FilterOp(op, StrLess(entry.value, value), entry.value = value, StrLess(value, entry.value))

\* (The mutant wants the prefix inside the key, not at its start.)
FilterKeyPrefix_Anywhere(prefix, entry) ==
    \E i \in 1 .. Len(entry.key) : IsPrefix(prefix, SubSeq(entry.key, i, Len(entry.key)))
FilterKeyPrefix(prefix, entry) == IsPrefix(prefix, entry.key)

\* Order::compare: whether lhs comes strictly before rhs.
entry_key_ascending(lhs, rhs) == cmp_Less(lhs.key, rhs.key)
entry_key_descending(lhs, rhs) == cmp_Less(rhs.key, lhs.key)
entry_value_ascending(lhs, rhs) == StrLess(lhs.value, rhs.value)
entry_value_descending(lhs, rhs) == StrLess(rhs.value, lhs.value)

-----------------------------------------------------------------------------
(* Properties, of strings s and keys k, l, m made by new().                *)

\* What a key looks like: "/", or namespaces that are neither empty nor dots.
IsKey(k) == k = SLASH \/ (/\ Head(k) = "/"
    /\ \A i \in DOMAIN list(k) : list(k)[i] \notin {<<>>, Dot, DotDot})

\* Every operation that makes a key, from any string and any keys, makes one that is
\* clean, so that clean() changes nothing, and new_unchecked in child() is never
\* given what it would panic for.
MakesKeys(s, k, l) == \A key \in {new(s), child(k, l), child(k, new(s)), parent(k), path(k),
                                  reverse(k), instance(k, s), with_namespaces(<<s, k>>)} :
    IsKey(key) /\ clean(key) = key

\* is_ancestor_of, which looks at characters, is the tree of namespaces: no key is
\* the ancestor of one that only begins with the same letters.
AncestryIsTree(k, l) ==
    is_ancestor_of(k, l) <=> (IsPrefix(list(k), list(l)) /\ k # l)

\* cmp is a total order that agrees with ==, puts an ancestor before its descendants,
\* and nothing but descendants between an ancestor and its descendant, so that a
\* subtree is a range of keys.
OrderFollowsTree(k, l, others) ==
    /\ (k # l) <=> (cmp_Less(k, l) \/ cmp_Less(l, k))
    /\ ~(cmp_Less(k, l) /\ cmp_Less(l, k))
    /\ is_ancestor_of(k, l) => /\ cmp_Less(k, l)
                               /\ \A m \in others : cmp_Less(k, m) /\ cmp_Less(m, l)
                                     => is_ancestor_of(k, m)

\* child appends namespaces, parent takes the last one away again, and reversing a key
\* twice changes nothing.
ChildAppends(k, l) ==
    /\ list(child(k, l)) = list(k) \o list(l)
    /\ ~is_root(l) => parent(child(k, l)) = child(k, parent(l))
    /\ reverse(reverse(k)) = k

\* A KeyTransform works "invertibly": every key but the root comes back from behind a
\* prefix, and no two keys share a place behind it.
PrefixInvertible(p, k, l) ==
    /\ ~is_root(k) => invert_key(p, convert_key(p, k)) = k
    /\ convert_key(p, k) = convert_key(p, l) => k = l

\* A prefix that ends with "/" selects the strict children of a key, which is what the
\* notes on Query say of every prefix; and a filter on keys keeps what its order puts
\* after the bound.
PrefixSelects(k, l) ==
    /\ ~is_root(k) => (FilterKeyPrefix(k \o SLASH, Entry(l, <<>>)) <=> is_descendant_of(l, k))
    /\ FilterKeyCompare(k, "GreaterThan", Entry(l, <<>>))
          <=> entry_key_ascending(Entry(k, <<>>), Entry(l, <<>>))
=============================================================================
