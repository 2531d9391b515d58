----------------------------- MODULE MCExporter -----------------------------
\* Files with three generic declarations: a type, a type with a method that
\* refers to the first, and a function with a local type.  Each of them comes
\* first, second and last in the alphabet.
EXTENDS Exporter, MCPruneUnused

CONSTANTS main, heap, utils, debug

MCTexts ==
  {(main :> uses) @@ (heap :> ofHeap) @@ (utils :> ofUtils) @@ (debug :> {debug}) :
     uses \in SUBSET {main, heap, utils}, ofHeap \in SUBSET {utils, heap}, ofUtils \in SUBSET {debug, heap, main}}

MCBasic == {<<"int">>}
MCAlphabet == <<"1", "2", "A", "B", "C", "G", "K", "L", "Local", "M", "Of", "Ptr", "Slice", "T", "add", "int", "main">>

Type(name) == [head |-> <<name>>, args |-> <<>>]
Of(head, t) == [head |-> head, args |-> <<t>>]
At(place, t) == [at |-> place, type |-> t, calls |-> {}]
Spelled(t) == At("spelled", t)
Calling(method, t) == [Spelled(t) EXCEPT !.calls = {<<method>>}]
Decl(name, of, params, refs, locals) ==
  [name |-> name, of |-> of, params |-> params, refs |-> refs, locals |-> locals]
Local(name, t, entered) == [name |-> <<name>>, types |-> <<t>>, entered |-> entered]

\* A box and a tree are types, apply is a function.  The method of the tree
\* stands behind or before the tree, the local types in the body of their
\* function or in a function literal in it.
FilesWith(box, tree, apply) ==
  {LET type == Decl(tree, <<>>, << <<"T">> >>,
                    <<Spelled(Of(box, Type("T"))), Spelled(Of(<<"Ptr">>, Of(tree, Type("T"))))>>, {})
       method == Decl(<<"add">>, tree, << <<param>> >>,
                      <<Spelled(added), At("made", Of(box, Type(param)))>>, {})
   IN <<Decl(<<"main">>, <<>>, <<>>, <<first, second, Spelled(Type("M"))>>, {Local("M", held, entered)}),
        Decl(box, <<>>, << <<"T">> >>, <<Spelled(element)>>, {})>>
      \o (IF follows THEN <<type, method>> ELSE <<method, type>>)
      \o <<Decl(apply, <<>>, << <<"T">> >>,
                <<Spelled(argument), Spelled(Of(box, Type("L"))), At("asserted", tested)>>,
                {Local("L", inside, entered)})>> :
    first \in {Spelled(Of(box, Of(<<"Slice">>, Type("int")))), Spelled(Of(tree, Of(box, Type("int")))),
               Calling("add", Of(tree, Of(<<"Slice">>, Of(box, Type("int")))))},
    second \in {At("inferred", Of(apply, Type("int"))), At("inferred", Of(apply, Type("M"))),
                Spelled(Of(apply, Of(tree, Type("int"))))},
    held \in {Type("int"), Of(box, Type("int"))},
    element \in {Type("T"), Of(<<"Slice">>, Type("T"))},
    param \in {"T", "K"},
    added \in {Type("T"), Of(tree, Type("T"))},
    argument \in {Of(tree, Type("T"))},
    tested \in {Type("T"), Of(box, Type("T"))},
    inside \in {Type("T"), Type("int")},
    follows \in BOOLEAN, entered \in BOOLEAN}

MCSources ==
  FilesWith(<<"A">>, <<"B">>, <<"C">>) \cup FilesWith(<<"C">>, <<"A">>, <<"B">>)
    \cup FilesWith(<<"B">>, <<"C">>, <<"A">>)
=============================================================================
