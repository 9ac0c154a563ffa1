-------------------------------- MODULE Enum --------------------------------
(***************************************************************************)
(* The enum registry of src/core/enum/enum.go.                             *)
(*                                                                         *)
(* An enum type T is declared by a sequence of New[T](i, s, d) calls (the  *)
(* package-level var blocks).  set records each object in three Go maps   *)
(* of the type's recordPair (String -> Object, Integer -> Object, Display *)
(* -> Object) and appends its String to `values`; the first declaration   *)
(* of T also records T under its short name (ObjectName) in typeRecords.  *)
(* The lookups (ToString, ToInteger, Is, GetObj, Objects, Values, Query,  *)
(* TypeDict, StringDict) and the flag operations (BitsMerge, BitsSplit)    *)
(* are operators over that state.                                          *)
(*                                                                         *)
(* Data: enum types, Strings and Displays are model values; Empty is the  *)
(* empty string; Strings are assumed not to be decimal numerals, so       *)
(* strconv.Atoi fails on them.  A uint32 is an integer mod 2^Width: the   *)
(* loop of BitsSplit runs over the Width bits (Width = 32 in the code).   *)
(***************************************************************************)
EXTENDS Integers, SequencesExt, FiniteSets, Bitwise

CONSTANTS
    Types,     \* enum types (the T of New[T])
    Name,      \* type -> ObjectName[T](): the type name after the last "."
    Ints,      \* integer values declarations use
    Strs,      \* String values declarations use
    Displays,  \* Display values declarations use (Empty: none given)
    Empty,     \* the empty string ""
    Nil,       \* a nil pointer (a nil *Object, or a nil Integer field)
    Panic,     \* the call panics (log.Panicf)
    Width,     \* bits of a uint32
    MaxDecls   \* bound on New calls

ASSUME /\ Ints \subseteq Int /\ Empty \in Displays /\ Empty \notin Strs
       /\ Width \in Nat \ {0} /\ MaxDecls \in Nat

VARIABLES
    known,        \* types with an entry in allRecords
    recs,         \* type -> its recordPair: [str, int, disp, values]
    typeRecords,  \* short name -> type
    history,      \* ghost: type -> its New calls, in order
    decls         \* New calls so far

vars == <<known, recs, typeRecords, history, decls>>

\* a Go map assignment m[k] = v
Put(k, v, m) == (k :> v) @@ m

\* the zero Object: what a map index returns for a missing key
ZeroObj == [index |-> 0, int |-> Nil, str |-> Empty, disp |-> Empty]

EmptyPair == [str |-> <<>>, int |-> <<>>, disp |-> <<>>, values |-> <<>>]

\* strconv.Atoi of the "%v" form of a key: an integer key parses to
\* itself, a String fails and the code uses the 0 it returns
Atoi(key) == IF key \in Ints THEN key ELSE 0

U32(x) == x % (2 ^ Width)

-----------------------------------------------------------------------------
\* Mutation: the Display guard dropped, so "" becomes a display key.
SetAnyDisplay(maps, a) ==
    [str    |-> Put(a.str, a, maps.str),
     int    |-> Put(a.int, a, maps.int),
     disp   |-> Put(a.disp, a, maps.disp),
     values |-> Append(maps.values, a.str)]

\* set: the object goes into the three maps (display only when not "")
\* and its String is appended to values
Set(maps, a) ==
    [str    |-> Put(a.str, a, maps.str),
     int    |-> Put(a.int, a, maps.int),
     disp   |-> IF a.disp # Empty THEN Put(a.disp, a, maps.disp) ELSE maps.disp,
     values |-> Append(maps.values, a.str)]

\* Mutation: the insertion index is never assigned.
IndexUnset(maps) == 0

\* a.index = len(maps.stringEnumRecord), before the insertion
Index(maps) == Cardinality(DOMAIN maps.str)

Init ==
    /\ known = {}
    /\ recs = [t \in Types |-> EmptyPair]
    /\ typeRecords = <<>>
    /\ history = [t \in Types |-> <<>>]
    /\ decls = 0

\* New[T](i, s, d): a fresh recordPair and a typeRecords entry on the
\* type's first declaration, then set
New(T, i, s, d) ==
    /\ decls < MaxDecls
    /\ LET maps == IF T \in known THEN recs[T] ELSE EmptyPair
           a == [index |-> Index(maps), int |-> i, str |-> s, disp |-> d]
       IN recs' = [recs EXCEPT ![T] = Set(maps, a)]
    /\ typeRecords' = IF T \in known THEN typeRecords
                      ELSE Put(Name[T], T, typeRecords)
    /\ known' = known \cup {T}
    /\ history' = [history EXCEPT ![T] = Append(@, [int |-> i, str |-> s, disp |-> d])]
    /\ decls' = decls + 1

Next == \E T \in Types, i \in Ints, s \in Strs, d \in Displays : New(T, i, s, d)

Spec == Init /\ [][Next]_vars

-----------------------------------------------------------------------------
(* Lookups.  Each takes the type T of its generic parameter; the calls on  *)
(* a type never declared panic.                                            *)

\* ToString[T](i): the String of integer i, "" when i is not declared
ToStr(T, i) ==
    IF T \notin known THEN Panic
    ELSE IF i \in DOMAIN recs[T].int THEN recs[T].int[i].str ELSE Empty

\* Mutation: the display map consulted before the string map.
ToIntegerDisplayFirst(T, s) ==
    IF T \notin known THEN Panic
    ELSE IF s \in DOMAIN recs[T].disp THEN recs[T].disp[s].int
    ELSE IF s \in DOMAIN recs[T].str THEN recs[T].str[s].int
    ELSE 0

\* ToInteger[T](s): the Integer of String s, else of Display s, else 0
ToInteger(T, s) ==
    IF T \notin known THEN Panic
    ELSE IF s \in DOMAIN recs[T].str THEN recs[T].str[s].int
    ELSE IF s \in DOMAIN recs[T].disp THEN recs[T].disp[s].int
    ELSE 0

\* Is[T](v) for a string v, and for an integer v (through Atoi of "%v")
IsString(T, v) == IF T \notin known THEN Panic ELSE v \in DOMAIN recs[T].str
IsInteger(T, v) == IF T \notin known THEN Panic ELSE v \in DOMAIN recs[T].int

\* GetObj[T](v): the type switch takes the string branch for every string
\* (the model's strings are Strs and Displays, "" included) and the Atoi
\* branch otherwise; a key not in the map gives the zero Object
GetObj(T, v) ==
    LET isStr == v \in Strs \cup Displays
        m == IF isStr THEN recs[T].str ELSE recs[T].int
        k == IF isStr THEN v ELSE Atoi(v)
    IN IF T \notin known THEN Panic ELSE IF k \in DOMAIN m THEN m[k] ELSE ZeroObj

\* Get[T](v): a new T with the fields of GetObj's object
Get(T, v) == GetObj(T, v)

\* Objects[T](): the objects of the string map in any order that
\* sort.Slice by index can leave (the sort is not stable)
Objects(T) ==
    IF T \notin known THEN {Panic}
    ELSE {o \in SetToSeqs(Range(recs[T].str)) :
              \A i, j \in DOMAIN o : i < j => ~(o[j].index < o[i].index)}

\* "%v" of an object's Integer field, a *IntegerType: the pointer's
\* address, one per New call, never the integer
IntegerText(T, o) == <<"ptr", T, o.index>>

\* Strings[T](p): the chosen property of every object of Objects[T](), in
\* its order (strings.Join with "," kept as the sequence it joins)
Strings(T, p) ==
    {[k \in DOMAIN o |-> CASE p = "integer" -> IntegerText(T, o[k])
                           [] p = "string"  -> o[k].str
                           [] p = "display" -> o[k].disp] : o \in Objects(T)}

\* Values(name): the String slice of the type recorded under name
Values(name) ==
    IF name \in DOMAIN typeRecords THEN recs[typeRecords[name]].values ELSE Panic

\* Mutation: the display map consulted before the string map.
QueryDisplayFirst(name, key) ==
    IF name \notin DOMAIN typeRecords THEN Nil
    ELSE LET m == recs[typeRecords[name]]
         IN IF key \in DOMAIN m.disp THEN m.disp[key]
            ELSE IF key \in DOMAIN m.str THEN m.str[key]
            ELSE IF Atoi(key) \in DOMAIN m.int THEN m.int[Atoi(key)]
            ELSE Nil

\* Query(name, key): nil for an unknown name; else the object whose
\* String, then Display, then Integer is the key; a non-numeric key's
\* Atoi error is ignored and the lookup is made with 0
Query(name, key) ==
    IF name \notin DOMAIN typeRecords THEN Nil
    ELSE LET m == recs[typeRecords[name]]
         IN IF key \in DOMAIN m.str THEN m.str[key]
            ELSE IF key \in DOMAIN m.disp THEN m.disp[key]
            ELSE IF Atoi(key) \in DOMAIN m.int THEN m.int[Atoi(key)]
            ELSE Nil

\* TypeDict(s, d, key): panic when the source lookup is nil, else look
\* the source object's String up in d
TypeDict(s, d, key) ==
    LET src == Query(s, key) IN IF src = Nil THEN Panic ELSE Query(d, src.str)

\* StringDict[S, D](str): GetObj returns the address of a local, never
\* nil, so the panic is unreachable and an unknown str gives D's zero object
StringDict(S, D, str) ==
    LET source == GetObj(S, str)
    IN IF source = Nil THEN Panic
       ELSE IF source = Panic THEN Panic ELSE Get(D, source.str)

\* BitsMerge[T](ss): the uint32 sum of the Integers of ss
BitsMerge(T, ss) ==
    IF ss = <<>> THEN 0
    ELSE IF T \notin known THEN Panic
    ELSE FoldLeft(LAMBDA r, s : U32(r + U32(ToInteger(T, s))), 0, ss)

\* Mutation: the loop stops one bit short (i < 31).
FlagsShort == [k \in 1..(Width - 1) |-> 2 ^ (k - 1)]

\* dk = 1 << i for i = 0 .. 31
Flags == [k \in 1..Width |-> 2 ^ (k - 1)]

\* BitsSplit[T](d): the Strings of the declared flags set in d, low bit first
BitsSplit(T, d) ==
    IF T \notin known THEN <<Panic>>
    ELSE LET kinds == SelectSeq(Flags, LAMBDA dk : IsInteger(T, dk) /\ (dk & d) > 0)
         IN [k \in DOMAIN kinds |-> ToStr(T, kinds[k])]

-----------------------------------------------------------------------------
(* Properties.                                                             *)

TypeOK ==
    /\ known \subseteq Types
    /\ decls \in 0..MaxDecls
    /\ DOMAIN typeRecords \subseteq {Name[t] : t \in known}
    /\ \A t \in Types :
          /\ DOMAIN recs[t].str \subseteq Strs
          /\ DOMAIN recs[t].int \subseteq Ints
          /\ DOMAIN recs[t].disp \subseteq Displays \ {Empty}
          /\ recs[t].values \in Seq(Strs)

\* the declarations of T, in order, repeat no String and no Integer
Distinct(T) ==
    \A i, j \in DOMAIN history[T] :
        i # j => history[T][i].str # history[T][j].str /\ history[T][i].int # history[T][j].int

\* no other declared type has T's short name
UniqueName(T) == \A u \in known \ {T} : Name[u] # Name[T]

\* For a type with distinct Strings and Integers and a unique short name,
\* every declared String goes to its Integer and back (ToInteger, then
\* ToString), Query by name finds its object, and GetObj of its Integer
\* finds it: a Display equal to another object's String never wins.
LookupsAgree ==
    \A T \in known : Distinct(T) /\ UniqueName(T) =>
        \A k \in DOMAIN history[T] :
            LET d == history[T][k] IN
            /\ ToStr(T, ToInteger(T, d.str)) = d.str
            /\ Query(Name[T], d.str).str = d.str
            /\ GetObj(T, d.int).str = d.str

\* For a type with distinct Strings and a unique short name, every result
\* Strings[T](String) can give (Objects[T]() sorted by index) equals
\* Values(name), the Strings in declaration order: set's index is the
\* insertion order, and sort.Slice orders by it.
StringsInOrder ==
    \A T \in known : Distinct(T) /\ UniqueName(T) =>
        \A v \in Strings(T, "string") : v = Values(Name[T])

\* For two declared types with unique short names, the two dictionary
\* lookups agree on every String both declare: StringDict[S, D] (GetObj,
\* then Get) and TypeDict(name of S, name of D) (Query, then Query) give
\* the same object of D, even when a Display of D equals that String.
DictAgrees ==
    \A S, D \in known : UniqueName(S) /\ UniqueName(D) =>
        \A s \in DOMAIN recs[S].str \cap DOMAIN recs[D].str :
            StringDict(S, D, s) = TypeDict(Name[S], Name[D], s)

\* the uint32 single-bit values
Bit == {2 ^ k : k \in 0..(Width - 1)}

\* T is a flag enum: distinct declarations whose Integers are single bits
FlagEnum(T) == Distinct(T) /\ \A k \in DOMAIN history[T] : history[T][k].int \in Bit

\* x names a declared object of T, by its String or its Display
Names(T, x) == x \in DOMAIN recs[T].str \cup DOMAIN recs[T].disp

\* For a flag enum, BitsMerge of any duplicate-free list of names (Strings,
\* Displays and undeclared strings) that names no object twice, followed
\* by BitsSplit, gives back the Strings of exactly the objects the list
\* names, in increasing order of their flags.
BitsRoundTrip ==
    \A T \in known : FlagEnum(T) =>
        \A S \in SUBSET (Strs \cup (Displays \ {Empty})) :
            (\A x, y \in S : x # y /\ Names(T, x) /\ Names(T, y)
                                => ToInteger(T, x) # ToInteger(T, y)) =>
            \A ss \in SetToSeqs(S) :
                LET is == SetToSortSeq({ToInteger(T, x) : x \in {y \in S : Names(T, y)}},
                                       LAMBDA a, b : a < b)
                IN BitsSplit(T, BitsMerge(T, ss)) = [k \in DOMAIN is |-> recs[T].int[is[k]].str]

=============================================================================
