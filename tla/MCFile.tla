------------------------------- MODULE MCFile -------------------------------
(***************************************************************************)
(* The buffered stream for TLC: a buffer of two bytes, so that every piece *)
(* of a write of up to five bytes is empty, fits, or does not.             *)
(***************************************************************************)
EXTENDS File

MCModes == {<<"r">>, <<"w">>, <<"r", "+">>, <<"w", "+", "b">>, <<"a">>, <<"a", "+">>,
            <<"r", "w">>, <<"+">>, <<"w", "?">>}

MCOffsets == {-1, 0, 2}

MCInitial == {<<>>, <<-2, -3, -4>>}

\* A write system call reports an error or, except for the remainder of a fully
\* buffered write, writes only a part.
MCFaults == [site : Sites, kind : {"error"}] \cup [site : Sites \ {"fbf_rest"}, kind : {"short"}]
=============================================================================
