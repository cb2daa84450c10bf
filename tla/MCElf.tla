---- MODULE MCElf ----
\* Images of two segments, at addresses below, in, across and above every limit.
EXTENDS Elf

R == {"r"}
RX == {"r", "x"}
RW == {"r", "w"}
RWX == {"r", "w", "x"}

Header == [type |-> "load", vaddr |-> 0, offset |-> 0, filesz |-> 0, memsz |-> 0,
           flags |-> R, align |-> 4, path |-> <<>>]
Seg(vaddr, sizes, flags) ==
    [Header EXCEPT !.vaddr = vaddr, !.offset = vaddr % 4, !.filesz = sizes[1],
                   !.memsz = sizes[2], !.flags = flags]
Interp(path, len) == [Header EXCEPT !.type = "interp", !.filesz = len, !.path = path]
Image(id, type, entry, ph) ==
    [id |-> id, ident |-> TRUE, type |-> type, entry |-> entry, phoff |-> 2,
     size |-> 6, ph |-> ph]

Sizes == {<<0, 3>>, <<2, 2>>, <<3, 7>>, <<0, 6>>}
Firsts == {Seg(v, s, f) : v \in {0, 4, 6}, s \in Sizes, f \in {RX, RW}}
Seconds == {Seg(v, s, f) : v \in {4, 6, 9, 12, 19, 28, 52}, s \in Sizes, f \in {R, RX, RW, RWX}}

Plain == {Image("main", t, e, <<a, b>>) :
             t \in {"exec", "dyn"}, e \in {5, 53}, a \in Firsts, b \in Seconds}

\* One thing wrong at a time.
Good == Seg(4, <<2, 2>>, RX)
Odd == {[Good EXCEPT !.align = 3], [Good EXCEPT !.offset = 1],
        [Good EXCEPT !.filesz = 3], [Good EXCEPT !.filesz = 6, !.memsz = 8],
        [Good EXCEPT !.flags = {"x"}], [Good EXCEPT !.memsz = 0], [Good EXCEPT !.memsz = 62],
        [Good EXCEPT !.memsz = 52]}
OddImages ==
    {Image("main", t, 4, <<s>>) : t \in {"exec", "dyn", "rel"}, s \in Odd}
      \cup {[Image("main", "exec", 4, <<Good>>) EXCEPT !.ident = FALSE],
            [Image("main", "exec", 4, <<Good>>) EXCEPT !.phoff = 6],
            [Image("main", "exec", 4, <<Good>>) EXCEPT !.size = 1],
            Image("main", "exec", 4, <<>>),
            Image("main", "exec", 4, <<Good, Good, Good, Good>>),
            Image("main", "exec", 4, <<Good, Seg(8, <<2, 2>>, R), Seg(12, <<2, 2>>, R)>>)}

Ld == Image("ld", "exec", 4, <<Seg(4, <<2, 3>>, RX), Seg(8, <<1, 1>>, R)>>)
LdAbove == Image("ld", "exec", 4, <<Seg(4, <<2, 3>>, RX), Seg(15, <<1, 4>>, RW)>>)
LdLoop == Image("ld", "exec", 4, <<Good, Interp(<<"l", "d">>, 2)>>)
LdBad == Image("ld", "exec", 4, <<Seg(4, <<2, 2>>, RWX)>>)
MCBlobs == << <<<<"l", "d">>, Ld>>, <<<<"a", "b">>, LdAbove>>,
              <<<<"o">>, LdLoop>>, <<<<"b">>, LdBad>> >>

Linked ==
    {Image("main", "dyn", e, <<Interp(p, len), a, b>>) :
        e \in {2, 5}, p \in {<<"l", "d">>, <<"l">>, <<"a", "b">>, <<"o">>, <<"b">>, <<"z">>, <<>>},
        len \in {0, 2, 4}, a \in {Seg(1, <<2, 3>>, RX), Seg(4, <<2, 3>>, RX)},
        b \in {Seg(6, <<1, 1>>, RW), Seg(8, <<1, 5>>, RW), Seg(8, <<1, 1>>, R)}}

MCImages == Plain \cup OddImages \cup Linked
====
