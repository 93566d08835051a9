-------------------------- MODULE MCRawImageInput --------------------------
(***************************************************************************)
(* Calls of the constructor that differ in one respect each: signature,    *)
(* shape, transparency, palette, and the pixels of indexed images.         *)
(***************************************************************************)
EXTENDS RawImageInput

Zeros(n) == [i \in 1..n |-> 0]
Colours(n) == [i \in 1..n |-> <<0, 0, 0>>]

Plain == [positional |-> 5, bytesFirst |-> FALSE, keywords |-> {}, bools |-> {},
          descriptor |-> FALSE, bytesLike |-> TRUE, width |-> 2, height |-> 1,
          kind |-> "rgb", depth |-> 8, data |-> Zeros(6), palette |-> Omitted,
          transparent |-> Omitted]

Compat == [Plain EXCEPT !.positional = 3, !.bytesFirst = TRUE, !.descriptor = TRUE,
                        !.keywords = {"color_type"}]

\* Arguments missing, twice, unknown, of the wrong type.
Signatures ==
    {[c EXCEPT !.positional = n, !.keywords = k, !.bools = b, !.descriptor = d] :
        c \in {Plain, Compat}, n \in 2..6, d \in BOOLEAN,
        k \in {{}, {"color_type"}, {"bit_depth", "data"}, {"palette"}, {"speed"},
               {"color_type", "bit_depth", "data"}},
        b \in {{}, {"width"}, {"bit_depth"}}}

Shapes ==
    {[Plain EXCEPT !.kind = k, !.depth = d, !.width = w, !.height = h,
                   !.data = Zeros(n), !.palette = Colours(1), !.bytesLike = b] :
        k \in Kinds \cup {"cmyk"}, d \in Depths \cup {3}, w \in {0, 1, MaxU32, MaxU32 + 1},
        h \in {0, 2, MaxU32}, n \in {0, 1, 2, 4, 6, 8}, b \in BOOLEAN}

Transparencies ==
    {[Plain EXCEPT !.kind = k, !.depth = d, !.transparent = t, !.bools = b] :
        k \in Kinds, d \in {2, 8, 16}, b \in {{}, {"transparent"}},
        t \in {<<3>>, <<4>>, <<255>>, <<256>>, <<0, 3, 4>>, <<0, 0, 65536>>, <<0, 0>>}}

Palettes ==
    {[Plain EXCEPT !.kind = "indexed", !.depth = d, !.data = Zeros(2), !.palette = p,
                   !.bools = b] :
        d \in {1, 8, 16}, b \in {{}, {"palette"}},
        p \in {Omitted, <<>>, Colours(2), Colours(3), Colours(256), Colours(257),
               <<<<0, 0>>>>, <<<<0, 0, 256>>>>, <<<<0, 0, 0, 255>>>>}}

\* Rows that end inside a byte, and data that end inside a row.
Pixels ==
    {[Plain EXCEPT !.kind = "indexed", !.depth = d, !.width = w, !.height = h,
                   !.data = s, !.palette = Colours(n)] :
        d \in {1, 2, 4, 8}, w \in {1, 3, 9}, h \in 1..2, n \in 1..3,
        s \in UNION {[1..l -> {0, 1, 24, 128}] : l \in 0..3}}

MCRawCalls == Signatures \cup Shapes \cup Transparencies \cup Palettes \cup Pixels
=============================================================================
