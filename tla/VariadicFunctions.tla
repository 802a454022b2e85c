-------------------------- MODULE VariadicFunctions --------------------------
(***************************************************************************)
(* src/lib/foreign_function_var.js: a variadic C function is a generator   *)
(* that takes the types of the variable arguments and returns a function   *)
(* prepared for them, from a cache whose keys are strings made of the ids  *)
(* of the types.  Ids belong to type objects: refType() and strings like   *)
(* "int *" make a new object each time, that inherits from its base type.  *)
(***************************************************************************)
EXTENDS Integers, Sequences

CONSTANTS
  TypeObjects, \* the type objects of the program
  Proto(_),    \* Object.getPrototypeOf(type): the base of a refType, or itself
  FixedTypes,  \* the types of the fixed arguments
  ReturnType,  \* the return type given when the generator was made
  Base,        \* the digits of toString(16): 16
  Wrap,        \* how many multiples of 0x10000 fit into 32 bits: 65536
  MaxVariable, \* bound: the variable arguments of a request
  MaxRequests  \* bound: the requests that the program makes

ASSUME FixedTypesAssumption == FixedTypes \in Seq(TypeObjects) /\ Len(FixedTypes) >= 1
ASSUME ReturnTypeAssumption == ReturnType \in TypeObjects
ASSUME BaseAssumption == Base \in Nat \ {0, 1} /\ Wrap \in Nat \ {0} /\ Wrap % 2 = 0
ASSUME MaxRequestsAssumption == MaxRequests \in Nat /\ MaxVariable \in Nat

VARIABLES
  id,         \* type[idKey], or -1
  counter,    \* how many ids were given
  returnType, \* variadic_function_generator.returnType
  cache,      \* the functions by key
  request,    \* the last request and what the generator returned for it
  requests    \* how many there were

variadicVars == <<id, counter, returnType, cache, request, requests>>

NoId == -1
NoRequest == [rtn |-> ReturnType, args |-> <<>>, func |-> [rtn |-> ReturnType, args |-> <<>>]]

Signature == [rtn : TypeObjects, args : Seq(TypeObjects)]

-----------------------------------------------------------------------------
(* getId.                                                                  *)

\* Mutant: a type derived from one that has an id inherits the id.
OwnIdInherited(ids, t) == IF ids[t] # NoId THEN ids[t] ELSE ids[Proto(t)]

\* type.hasOwnProperty(idKey)
OwnId(ids, t) == ids[t]

\* Mutant: the counter grows once for all the types of a request.
GetIdsAtOnce(ids, n, types) ==
  [ids |-> [t \in TypeObjects |->
              IF OwnId(ids, t) = NoId /\ \E i \in DOMAIN types : types[i] = t THEN n ELSE ids[t]],
   n |-> n + 1]

\* ids and the counter after getId(type) for each type in turn.
GetIds(ids, n, types) ==
  LET after[i \in 0..Len(types)] ==
        IF i = 0 THEN [ids |-> ids, n |-> n]
        ELSE LET before == after[i - 1]
             IN IF OwnId(before.ids, types[i]) # NoId THEN before
                ELSE [ids |-> [before.ids EXCEPT ![types[i]] = before.n], n |-> before.n + 1]
  IN after[Len(types)]

Digits(n) ==
  LET digits[k \in 0..n] == IF k < Base THEN <<k>> ELSE Append(digits[k \div Base], k % Base)
  IN digits[n]

\* (n * 0x10000 | 0).toString(16), as its digits.
IdString(n) ==
  LET m == n % Wrap
  IN IF m = 0 THEN <<0>>
     ELSE IF m < Wrap \div 2 THEN Digits(m) \o <<0, 0, 0, 0>>
     ELSE <<-1>> \o Digits(Wrap - m) \o <<0, 0, 0, 0>>

\* The ids one after the other, that of the return type first.
Key(ids, rtn, args) ==
  LET key[i \in 0..Len(args)] ==
        IF i = 0 THEN IdString(OwnId(ids, rtn))
        ELSE key[i - 1] \o IdString(OwnId(ids, args[i]))
  IN key[Len(args)]

-----------------------------------------------------------------------------
VariadicInit ==
  LET given == GetIds([t \in TypeObjects |-> NoId], 0, FixedTypes)
  IN /\ id = given.ids
     /\ counter = given.n
     /\ returnType = ReturnType
     /\ cache = <<>>
     /\ request = NoRequest
     /\ requests = 0

\* The cif is prepared with the return type that the generator was made with.
Prepare(rtn, args) == [rtn |-> rtn, cifRtn |-> ReturnType, args |-> args]

\* variadic_function_generator(...variable)
Generate(variable) ==
  LET args == FixedTypes \o variable
      given == GetIds(id, counter, Append(variable, returnType))
      key == Key(given.ids, returnType, args)
      func == IF key \in DOMAIN cache THEN cache[key] ELSE Prepare(returnType, args)
  IN /\ requests < MaxRequests
     /\ requests' = requests + 1
     /\ id' = given.ids
     /\ counter' = given.n
     /\ cache' = [k \in DOMAIN cache \cup {key} |-> IF k = key THEN func ELSE cache[k]]
     /\ request' = [rtn |-> returnType, args |-> args, func |-> func]
     /\ UNCHANGED returnType

\* The program patches the return type of the generator.
PatchReturnType(t) ==
  /\ returnType' = t
  /\ UNCHANGED <<id, counter, cache, request, requests>>

VariadicNext ==
  \/ \E n \in 0..MaxVariable : \E variable \in [1..n -> TypeObjects] : Generate(variable)
  \/ \E t \in TypeObjects \ {returnType} : PatchReturnType(t)

VariadicSpec == VariadicInit /\ [][VariadicNext]_variadicVars

-----------------------------------------------------------------------------
(* Properties.                                                             *)

\* Types; the ids that were given are all different.
VariadicTypeOK ==
  /\ id \in [TypeObjects -> {NoId} \cup 0..counter - 1]
  /\ \A t, u \in TypeObjects : id[t] = id[u] /\ id[t] # NoId => t = u
  /\ returnType \in TypeObjects
  /\ \A k \in DOMAIN cache : cache[k].rtn \in TypeObjects
  /\ request.rtn \in TypeObjects
  /\ requests \in 0..MaxRequests

\* The generator returns a function for the very types it was asked for, and
\* one whose cif has the return type that is read from the result, unless that
\* was patched.  The ids are a prefix code only while each has one digit before
\* its zeros: with more types, and after the counter wraps, functions of other
\* signatures can be returned.  (getId, variadic_function_generator)
CachedSignature ==
  counter <= Base /\ counter <= Wrap \div 2 /\ requests > 0 =>
    /\ request.func.rtn = request.rtn
    /\ request.func.args = request.args
    /\ request.rtn = ReturnType => request.func.cifRtn = request.rtn
=============================================================================
