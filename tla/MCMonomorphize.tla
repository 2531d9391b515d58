--------------------------- MODULE MCMonomorphize ---------------------------
\* A generic function or type that makes a slice of its parameter, as
\* NewMinHeap in heap/heap.go does, of an instance or of the parameter; and
\* main, which uses it for int or for a slice.
EXTENDS Monomorphize

MCBasic == {<<"int">>}
MCAlphabet == <<"1", "G", "MinHeap", "NewMinHeap", "Of", "Ptr", "Slice", "T", "int", "main">>

Of(head, t) == [head |-> head, args |-> <<t>>]
T == Plain(<<"T">>)
int == Plain(<<"int">>)

MCFiles ==
  {<<[name |-> <<"main">>, of |-> NoType, params |-> <<>>, locals |-> {},
      refs |-> <<[at |-> place, type |-> Of(<<"NewMinHeap">>, for), calls |-> {}]>>],
     [name |-> <<"MinHeap">>, of |-> NoType, params |-> << <<"T">> >>, locals |-> {},
      refs |-> <<[at |-> "spelled", type |-> Of(<<"Slice">>, T), calls |-> {}]>>],
     [name |-> <<"NewMinHeap">>, of |-> NoType, params |-> << <<"T">> >>, locals |-> {},
      refs |-> <<[at |-> "spelled", type |-> Of(<<"Ptr">>, Of(<<"MinHeap">>, T)), calls |-> {}],
                 [at |-> "made", type |-> Of(<<"Slice">>, data), calls |-> {}]>>]>> :
     place \in {"spelled", "inferred"}, for \in {int, Of(<<"Slice">>, int)},
     data \in {Of(<<"MinHeap">>, T), T}}
=============================================================================
