------------------------------- MODULE Bincode -------------------------------
(***************************************************************************)
(* The positional encoding of every message: bincode's standard            *)
(* configuration, as oinq applies it and decode_agent_info names it.       *)
(* Nothing but the order of the declarations says what a byte means, which *)
(* is why the order is part of the protocol.  A type is described by its   *)
(* shape, a value by a seed; what matters of a decoded value is which      *)
(* bytes it was made from.  Every integer of a sample is below 251, so an  *)
(* integer is one byte.                                                    *)
(***************************************************************************)
EXTENDS Naturals, Sequences, SequencesExt, FiniteSets

\* Shapes.
U      == [k |-> "u"]                        \* an integer
Bool   == [k |-> "bool"]
Str    == [k |-> "str"]                      \* a length and that many bytes
Raw(n) == [k |-> "raw", n |-> n]             \* n bytes: a float, an address
Opt(t) == [k |-> "opt", of |-> t]
Vec(t) == [k |-> "vec", of |-> t]            \* a map is a vector of pairs
Struct(fs) == [k |-> "struct", fs |-> fs]

\* An enum is a variant index and the variant's fields.  `vs` holds the
\* fields of every variant any build has; `order` lists the ones this build
\* declares, in declaration order, and the index is a place in it.
EnumIn(vs, order) == [k |-> "enum", vs |-> vs, order |-> order]
Enum(vs, known)   == EnumIn(vs, [i \in 1 .. known |-> i])
Units(n)          == Enum([i \in 1 .. n |-> <<>>], n)

\* A discriminant in lo .. hi; senders may use up to max.  Decoding one
\* beyond hi fails when strict and yields a default variant otherwise.
Num(lo, hi, max, strict) ==
    [k |-> "num", lo |-> lo, hi |-> hi, max |-> max, strict |-> strict]

-----------------------------------------------------------------------------
\* The variant of an enum that seed s stands for, and its wire index.
Pick(t, s)      == 1 + (s % Len(t.vs))
Variant(t, s)   == t.vs[Pick(t, s)]
WireIndex(t, s) ==
    (CHOOSE i \in DOMAIN t.order : t.order[i] = Pick(t, s)) - 1

RECURSIVE Bytes(_, _)
\* The encoding of the value seed s stands for.
Bytes(t, s) ==
    CASE t.k = "u"        -> <<s % 3>>
      [] t.k = "bool"     -> <<s % 2>>
      [] t.k = "str"      -> <<s % 3>> \o [i \in 1 .. s % 3 |-> i]
      [] t.k = "raw"      -> [i \in 1 .. t.n |-> s % 3]
      [] t.k = "opt"      -> IF s % 2 = 0 THEN <<0>>
                             ELSE <<1>> \o Bytes(t.of, s \div 2)
      [] t.k = "vec"      -> <<s % 3>> \o FlattenSeq(
                                 [i \in 1 .. s % 3 |-> Bytes(t.of, s + i)])
      [] t.k = "struct"   -> FlattenSeq(
                                 [i \in DOMAIN t.fs |-> Bytes(t.fs[i], s + i)])
      [] t.k = "enum"     -> <<WireIndex(t, s)>> \o FlattenSeq(
                                 [i \in DOMAIN Variant(t, s) |->
                                     Bytes(Variant(t, s)[i],
                                           s \div Len(t.vs) + i)])
      [] t.k = "num"      -> <<t.lo + (s % (t.max - t.lo + 1))>>

RECURSIVE Declares(_, _)
\* Whether a build with shape t has a way to say the value seed s stands for.
Declares(t, s) ==
    CASE t.k = "opt"    -> s % 2 = 1 => Declares(t.of, s \div 2)
      [] t.k = "vec"    -> \A i \in 1 .. s % 3 : Declares(t.of, s + i)
      [] t.k = "struct" -> \A i \in DOMAIN t.fs : Declares(t.fs[i], s + i)
      [] t.k = "enum"   -> /\ Pick(t, s) \in Range(t.order)
                           /\ \A i \in DOMAIN Variant(t, s) :
                                Declares(Variant(t, s)[i],
                                         s \div Len(t.vs) + i)
      [] OTHER          -> TRUE

-----------------------------------------------------------------------------
Bad == 1000   \* a position no decoder reaches: the decode failed

RECURSIVE Parse(_, _, _)
\* The position after the value of shape t that starts at position p of b.
\* Bytes after the last value of a frame are never looked at.
Parse(t, b, p) ==
    LET Fields(fs, q) == FoldLeft(LAMBDA at, f : Parse(f, b, at), q, fs) IN
    IF p = Bad \/ (p > Len(b) /\ t.k # "struct") THEN Bad
    ELSE CASE t.k = "u"      -> p + 1
           [] t.k = "bool"   -> IF b[p] <= 1 THEN p + 1 ELSE Bad
           [] t.k = "num"    -> IF t.strict /\ b[p] \notin t.lo .. t.hi
                                THEN Bad ELSE p + 1
           [] t.k = "raw"    -> IF p + t.n <= Len(b) + 1 THEN p + t.n ELSE Bad
           [] t.k = "str"    -> IF p + b[p] <= Len(b) THEN p + b[p] + 1 ELSE Bad
           [] t.k = "opt"    -> CASE b[p] = 0 -> p + 1
                                  [] b[p] = 1 -> Parse(t.of, b, p + 1)
                                  [] OTHER    -> Bad
           [] t.k = "vec"    -> Fields([i \in 1 .. b[p] |-> t.of], p + 1)
           [] t.k = "struct" -> Fields(t.fs, p)
           [] t.k = "enum"   -> IF b[p] < Len(t.order)
                                THEN Fields(t.vs[t.order[b[p] + 1]], p + 1)
                                ELSE Bad

Failed == <<Bad>>   \* the outcome of a decode that failed

\* The bytes a decoder with shape t made its value from.
Decoded(t, b) == LET e == Parse(t, b, 1) IN
                 IF e = Bad THEN Failed ELSE SubSeq(b, 1, e - 1)

=============================================================================
