---------------------------- MODULE Monomorphize ----------------------------
(***************************************************************************)
(* generator/monomorphize/monomorphize.go: a file is rewritten, one        *)
(* instance an iteration, until no code without type parameters mentions   *)
(* an instance of a generic declaration.                                   *)
(*                                                                         *)
(* A name is the sequence of the words it is spelled with, so that names   *)
(* put together from others may come out alike.  A type expression is a    *)
(* head and arguments: <<"Ptr">>, <<"Slice">> and <<"Arr", n>> wrap one    *)
(* type, other heads with arguments are instances.  A file is the sequence *)
(* of its declarations:                                                    *)
(*   name, of   its name, and of a method the type it belongs to           *)
(*   params     its type parameters, of a method those of the receiver     *)
(*   refs       the type expressions in it, calls with their type          *)
(*              arguments included, where each of them stands, and the     *)
(*              methods that are called on what is declared with it        *)
(*   locals     the types declared inside it, with the types they mention, *)
(*              and whether hoistLocalTypes enters the block they stand in *)
(*              (not a function literal, a case or comm clause, a labeled  *)
(*              statement, or an else-if beyond the first)                 *)
(* A reference stands                                                      *)
(*   spelled    where applySubstToNode and setChildExprInParent look       *)
(*   made       as the argument of make or new, which is substituted only  *)
(*              within an instance                                         *)
(*   asserted   in a type assertion or a variadic parameter, which is      *)
(*              substituted within an instance and never replaced          *)
(*   inferred   as a call whose type arguments the compiler infers         *)
(* Type parameters are never named like a declared type, and the check of  *)
(* the types is left to names: whether they are declared, once, with as    *)
(* many parameters, and with the methods that are called.                  *)
(***************************************************************************)
EXTENDS Naturals, SequencesExt

CONSTANTS
  Files,     \* the files that the pass may be given; they compile
  Basic,     \* the names of predeclared types
  Alphabet,  \* the words that names are made of, sorted
  MaxIters   \* the limit on iterations

NoType == <<>>
NoLocal == <<>>
Wraps == {"Ptr", "Slice", "Arr"}

VARIABLES
  file,      \* src, parsed
  created,   \* created
  iter,      \* iter
  outcome,   \* "running", "returned" or "panicked"
  original,  \* history: the file given
  origin     \* history: what the names that the pass made up stand for

vars == <<file, created, iter, outcome, original, origin>>

-----------------------------------------------------------------------------
(* Type expressions                                                        *)

Plain(name) == [head |-> name, args |-> <<>>]
IsWrap(t) == t.args # <<>> /\ Head(t.head) \in Wraps
IsInstance(t) == t.args # <<>> /\ Head(t.head) \notin Wraps

RECURSIVE Parts(_)
Parts(t) == {t} \cup UNION {Parts(t.args[i]) : i \in DOMAIN t.args}

Mentions(t, names) == \E part \in Parts(t) : part.head \in names

RECURSIVE StableName(_), ArgsKey(_)

\* Mutant of ArgsKey: the first argument alone tells instances apart.
FirstKey(ts) == IF ts[1].args = <<>> THEN ts[1].head ELSE <<>>

ArgsKey(ts) ==
  IF Len(ts) = 1 THEN StableName(ts[1])
  ELSE StableName(Head(ts)) \o <<"C">> \o ArgsKey(Tail(ts))

\* The length of an array is left out.
StableName(t) ==
  IF t.args = <<>> THEN t.head
  ELSE IF IsWrap(t) THEN <<Head(t.head)>> \o StableName(t.args[1])
  ELSE t.head \o <<"Of">> \o ArgsKey(t.args)

Key(t) == <<t.head, ArgsKey(t.args)>>

MakeMonoName(t) ==
  t.head \o FlattenSeq([i \in DOMAIN t.args |-> <<"G", ToString(i)>> \o StableName(t.args[i])])

RECURSIVE Subst(_, _), SubstInside(_, _), Rewrite(_, _), RewriteInside(_, _)

Subst(t, subst) ==
  IF t.head \in DOMAIN subst THEN subst[t.head]
  ELSE [t EXCEPT !.args = [i \in DOMAIN t.args |-> Subst(t.args[i], subst)]]

\* Only within instances.
SubstInside(t, subst) ==
  IF IsInstance(t) THEN Subst(t, subst)
  ELSE [t EXCEPT !.args = [i \in DOMAIN t.args |-> SubstInside(t.args[i], subst)]]

\* Mutant of Rewrite: what is wrapped is not looked at.
RewriteTop(t, made) ==
  IF IsInstance(t) /\ Key(t) \in DOMAIN made THEN Plain(made[Key(t)]) ELSE t

\* With made the concrete names by key.  The arguments of an instance are
\* no place where setChildExprInParent puts anything.
Rewrite(t, made) ==
  IF IsInstance(t) /\ Key(t) \in DOMAIN made THEN Plain(made[Key(t)])
  ELSE RewriteInside(t, made)

RewriteInside(t, made) ==
  [t EXCEPT !.args = [i \in DOMAIN t.args |->
     IF IsWrap(t) THEN Rewrite(t.args[i], made) ELSE RewriteInside(t.args[i], made)]]

-----------------------------------------------------------------------------
(* Declarations                                                            *)

SubstAll(ts, subst) == [k \in DOMAIN ts |-> Subst(ts[k], subst)]

SubstLocals(locals, subst) == {[l EXCEPT !.types = SubstAll(@, subst)] : l \in locals}

SubstRef(r, subst) ==
  [r EXCEPT !.type = IF r.at \in {"made", "asserted"} THEN SubstInside(@, subst) ELSE Subst(@, subst)]

\* The body of applySubstToNode for a clone of d.
ApplySubst(d, subst) ==
  [d EXCEPT !.refs = [k \in DOMAIN @ |-> SubstRef(@[k], subst)],
            !.locals = SubstLocals(@, subst)]

\* A call is renamed if collect has come across it, as known says.  What is
\* inferred for it otherwise follows from types that are spelled elsewhere.
RewriteRef(r, made, known) ==
  CASE r.at = "asserted" -> RewriteInside(r.type, made)
    [] r.at = "inferred" /\ ~known ->
         [r.type EXCEPT !.args = [k \in DOMAIN @ |-> Rewrite(@[k], made)]]
    [] r.at = "inferred" /\ known /\ (IsInstance(r.type) => Key(r.type) \notin DOMAIN made) ->
         [r.type EXCEPT !.args = [k \in DOMAIN @ |-> Rewrite(@[k], made)]]
    [] OTHER -> Rewrite(r.type, made)

RewriteInstantiations(d, made, known) ==
  [d EXCEPT !.refs = [k \in DOMAIN @ |-> [@[k] EXCEPT !.type = RewriteRef(d.refs[k], made, known)]],
            !.locals = {[l EXCEPT !.types = [k \in DOMAIN @ |-> Rewrite(@[k], made)]] : l \in @}]

LocalNames(d) == {l.name : l \in d.locals}

TypesIn(d) == {r.type : r \in Range(d.refs)} \cup UNION {Range(l.types) : l \in d.locals}

\* What collect finds in a declaration: of a call with inferred arguments
\* the call, elsewhere whatever is spelled.
Collect(d) ==
  LET calls == {r.type : r \in {s \in Range(d.refs) : s.at = "inferred"}}
  IN {t \in calls \cup UNION {Parts(u) : u \in TypesIn(d) \ calls} : IsInstance(t)}

TopLevel(f, name) == {k \in DOMAIN f : f[k].of = NoType /\ f[k].name = name}
Declared(f, name) == f[CHOOSE k \in TopLevel(f, name) : TRUE]
TopLevelNames(f) == {d.name : d \in Range(f)}

Methods(f, name) == {d.name : d \in {e \in Range(f) : e.of = name}}

\* The methods that the index holds for a generic type.  It is made in one go
\* through the file: a method that stands before its type is passed over.
MethodsByRecv(f, base) ==
  LET first == CHOOSE k \in TopLevel(f, base) : TRUE
  IN SelectSeq(SubSeq(f, first + 1, Len(f)), LAMBDA d : d.of = base)

Resolves(f, d, t) ==
  \/ IsWrap(t) /\ Len(t.args) = 1
  \/ t.args = <<>> /\ t.head \in Basic \cup Range(d.params) \cup LocalNames(d)
  \/ TopLevel(f, t.head) # {} /\ Len(t.args) = Len(Declared(f, t.head).params)

\* What is left of the check of the types.
Compiles(f) ==
  /\ \A i, j \in DOMAIN f : f[i].of = f[j].of /\ f[i].name = f[j].name => i = j
  /\ \A d \in Range(f) : \A u \in TypesIn(d) : \A t \in Parts(u) : Resolves(f, d, t)
  /\ \A d \in Range(f) : \A r \in Range(d.refs) : r.calls \subseteq Methods(f, r.type.head)

-----------------------------------------------------------------------------
Init ==
  /\ file \in Files
  /\ created = <<>>
  /\ iter = 0
  /\ outcome = "running"
  /\ original = file
  /\ origin = <<>>

\* An iteration gets past the check.
Iterates == outcome = "running" /\ iter < MaxIters /\ Compiles(file)

\* Pairs of a declaration and the name of a type in it that is to be
\* hoisted: one in a block that is entered, without type parameters.
LocalTypes(f) ==
  {<<i, n>> \in (DOMAIN f) \X UNION {LocalNames(d) : d \in Range(f)} :
     \E l \in f[i].locals : l.name = n /\ l.entered /\ \A t \in Range(l.types) : ~Mentions(t, Range(f[i].params))}

HoistedName(base, taken) ==
  IF base \notin taken THEN base
  ELSE Append(base, ToString(CHOOSE k \in 2..Cardinality(taken) + 2 :
                               /\ Append(base, ToString(k)) \notin taken
                               /\ \A j \in 2..k - 1 : Append(base, ToString(j)) \in taken))

HoistedNames(f) ==
  FoldLeft(LAMBDA names, p :
      names @@ (p :> HoistedName(<<"Local">> \o f[p[1]].name \o p[2], TopLevelNames(f) \cup Range(names))),
    <<>>, SetToSeq(LocalTypes(f)))

\* References to hoisted types get their new names, wherever they stand.
WithoutHoisted(d, new) ==
  [d EXCEPT !.refs = [k \in DOMAIN @ |-> [@[k] EXCEPT !.type = Subst(@, new)]],
            !.locals = SubstLocals({l \in @ : l.name \notin DOMAIN new}, new)]

\* The declaration that d was made from, and with which arguments.
OriginOf(d) ==
  IF d.of \in DOMAIN origin THEN [origin[d.of] EXCEPT !.of = origin[d.of].name, !.name = d.name]
  ELSE IF d.of = NoType /\ d.name \in DOMAIN origin THEN origin[d.name]
  ELSE [of |-> d.of, name |-> d.name, local |-> NoLocal,
        args |-> [k \in DOMAIN d.params |-> Plain(d.params[k])]]

\* The type of a hoisted one is cloned before anything gets a new name.
HoistLocalTypes ==
  /\ Iterates
  /\ LET names == HoistedNames(file)
         new(i) == [n \in {p[2] : p \in {q \in DOMAIN names : q[1] = i}} |-> Plain(names[<<i, n>>])]
         local(p) == CHOOSE l \in file[p[1]].locals : l.name = p[2]
         lifted(p) == [name |-> names[p], of |-> NoType, params |-> <<>>, locals |-> {},
                       refs |-> [k \in DOMAIN local(p).types |->
                                   [at |-> "spelled", type |-> local(p).types[k], calls |-> {}]]]
     IN /\ LocalTypes(file) # {}
        /\ file' = [i \in DOMAIN file |-> WithoutHoisted(file[i], new(i))]
                     \o SetToSeq({lifted(p) : p \in DOMAIN names})
        /\ origin' = origin @@ [n \in Range(names) |->
             LET p == CHOOSE q \in DOMAIN names : names[q] = n
             IN [OriginOf(file[p[1]]) EXCEPT !.local = p[2]]]
  /\ iter' = iter + 1
  /\ UNCHANGED <<created, outcome, original>>

\* Mutant of Hoistable: types that are not at the top level are overlooked.
HoistableLocals(t, d) == ~Mentions(t, Range(d.params))

\* Neither parameters nor types that are not at the top level.
Hoistable(t, d) == ~Mentions(t, Range(d.params) \cup LocalNames(d))

\* The instances that are still to be made.
Open ==
  UNION {{t \in Collect(d) : Hoistable(t, d) /\ Key(t) \notin DOMAIN created} : d \in Range(file)}

\* The parameters of d by position: they are renamed in the clone first, so
\* that all of them are replaced at once.
ArgumentsFor(d, args) ==
  [p \in Range(d.params) |-> args[CHOOSE k \in DOMAIN args : d.params[k] = p]]

\* cloneTypeDecl and cloneFuncForConcrete.
CloneDecl(d, name, subst) == [ApplySubst(d, subst) EXCEPT !.name = name, !.params = <<>>]

CloneMethodForConcrete(d, name, subst) == [ApplySubst(d, subst) EXCEPT !.of = name, !.params = <<>>]

\* The concrete declaration, and of a type the methods in the index.  They are
\* substituted by the names that the type gives its parameters.
Cloned(t, name) ==
  LET base == Declared(file, t.head)
      subst == ArgumentsFor(base, t.args)
      methods == MethodsByRecv(file, t.head)
  IN <<CloneDecl(base, name, subst)>>
       \o [k \in DOMAIN methods |-> CloneMethodForConcrete(methods[k], name, subst)]

Rank(word) == CHOOSE k \in DOMAIN Alphabet : Alphabet[k] = word

Before(m, n) ==
  \E k \in DOMAIN n :
    /\ \A j \in 1..k - 1 : j \in DOMAIN m /\ m[j] = n[j]
    /\ k \in DOMAIN m => Rank(m[k]) < Rank(n[k])

\* One iteration makes one instance, the one whose name and key come first.
Instantiate(t) ==
  /\ Iterates
  /\ \A u \in Open : Before(t.head, u.head) \/ (t.head = u.head /\ ~Before(Key(u)[2], Key(t)[2]))
  /\ LocalTypes(file) = {}
  /\ LET name == MakeMonoName(t)
         made == created @@ (Key(t) :> name)
         clones == Cloned(t, name)
     IN /\ created' = made
        /\ file' = [k \in DOMAIN file |-> RewriteInstantiations(file[k], made, TRUE)]
                     \o [k \in DOMAIN clones |-> RewriteInstantiations(clones[k], made, FALSE)]
        /\ origin' = origin @@ (name :> [of |-> NoType, name |-> t.head, args |-> t.args, local |-> NoLocal])
  /\ iter' = iter + 1
  /\ UNCHANGED <<outcome, original>>

Return ==
  /\ Iterates
  /\ LocalTypes(file) = {} /\ Open = {}
  /\ outcome' = "returned"
  /\ UNCHANGED <<file, created, iter, original, origin>>

\* A version that does not compile, or one too many.
Panic ==
  /\ outcome = "running"
  /\ iter = MaxIters \/ ~Compiles(file)
  /\ outcome' = "panicked"
  /\ UNCHANGED <<file, created, iter, original, origin>>

Next ==
  \/ HoistLocalTypes
  \/ \E t \in Open : Instantiate(t)
  \/ Return
  \/ Panic

Spec == Init /\ [][Next]_vars

-----------------------------------------------------------------------------
(* Properties                                                              *)

RECURSIVE Expand(_)

\* t, with what the pass has made up taken back.
Expand(t) ==
  IF t.head \in DOMAIN origin
    THEN LET o == origin[t.head]
         IN IF o.local # NoLocal THEN Plain(o.local)
            ELSE [head |-> o.name, args |-> [k \in DOMAIN o.args |-> Expand(o.args[k])]]
  ELSE [t EXCEPT !.args = [k \in DOMAIN @ |-> Expand(@[k])]]

\* What a declaration with this origin should refer to.
Meant(o) ==
  LET d == CHOOSE e \in Range(original) : e.of = o.of /\ e.name = o.name
      subst == [p \in Range(d.params) |-> Expand(o.args[CHOOSE k \in DOMAIN d.params : d.params[k] = p])]
  IN IF o.local = NoLocal THEN [k \in DOMAIN d.refs |-> Subst(d.refs[k].type, subst)]
     ELSE SubstAll((CHOOSE l \in d.locals : l.name = o.local).types, subst)

\* What is returned means what was given: every declaration and every local
\* type left in it refers, at every place, to the instance that the one it was
\* made from refers to there, with its parameters replaced by the arguments it
\* was made for; and an instance of a type has the methods that stand after the
\* type (monomorphize.go:66), no others and none for another instance.
MeaningKept ==
  outcome = "returned" =>
    \A d \in Range(file) :
      /\ [k \in DOMAIN d.refs |-> Expand(d.refs[k].type)] = Meant(OriginOf(d))
      /\ \A l \in d.locals :
           [k \in DOMAIN l.types |-> Expand(l.types[k])] = Meant([OriginOf(d) EXCEPT !.local = l.name])
      /\ d.name \in DOMAIN origin /\ d.of = NoType =>
           LET o == origin[d.name]
           IN Methods(file, d.name) =
                IF o.local # NoLocal THEN {} ELSE {m.name : m \in Range(MethodsByRecv(original, o.name))}

\* Code without type parameters has no instance of a generic declaration
\* left, wherever types are spelled out, however instances are nested and in
\* whatever order they are made: but for the instances for a local type that
\* stands in a block which is not entered, and what lies within them.
NoGenericsLeft ==
  outcome = "returned" =>
    \A d \in Range(file) : d.params = <<>> =>
      \A u \in {r.type : r \in {s \in Range(d.refs) : s.at \in {"spelled", "made"}}}
               \cup UNION {Range(l.types) : l \in d.locals} :
        \A t \in Parts(u) : IsInstance(t) =>
          \E w \in Parts(u) : IsInstance(w) /\ t \in Parts(w) /\ Mentions(w, LocalNames(d))

\* The files that the pass can deal with: parameters are substituted
\* wherever they stand, methods call them as the type does, methods that are
\* called on an instance stand after the type, and types that are declared in
\* a function do not mention each other.
Tractable(f) ==
  \A d \in Range(f) :
    /\ \A r \in Range(d.refs) :
         LET gone == [p \in Range(d.params) |-> Plain(NoType)]
         IN SubstRef(r, gone).type = Subst(r.type, gone)
    /\ d.of # NoType => d.params = Declared(f, d.of).params
    /\ \A r \in Range(d.refs) :
         IsInstance(r.type) => r.calls \subseteq {m.name : m \in Range(MethodsByRecv(f, r.type.head))}
    /\ \A l \in d.locals : \A t \in Range(l.types) : ~Mentions(t, LocalNames(d))

\* A tractable file compiles after every iteration: every name is declared,
\* and declared once, and so is every method that is called.
TractableCompiles == Tractable(original) => Compiles(file)

\* What the comment on the check says of every file
\* (monomorphize.go:74).
EveryVersionCompiles == Compiles(file)
=============================================================================
