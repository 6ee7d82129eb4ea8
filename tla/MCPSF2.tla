------------------------------- MODULE MCPSF2 -------------------------------
(***************************************************************************)
(* Songs for PSF2: one on four libraries whose archives lie over each      *)
(* other, and one for each way a song fails to load: two that name each    *)
(* other, one too deep, and those with something missing, damaged or of    *)
(* another kind than the loader asks for.                                  *)
(***************************************************************************)
EXTENDS PSF2

line(name, parts) == [name |-> name, parts |-> parts]
lib(f) == line("_lib", <<f>>)
lib2(f) == line("_lib2", <<f>>)
psf(version, lines) ==
  [version |-> version, header |-> TRUE, reserved |-> version = 2, executable |-> version = 1,
   body |-> TRUE, lines |-> lines]

MCLibNames == <<"_lib", "_lib2", "_lib3">>

MCContents == [
  song  |-> psf(2, <<lib("base"), line("artist", <<"x", "y">>), lib2("extra"), line("title", <<"t">>),
                     lib("nowhere"), line("artist", <<"z", "u">>), line("title", <<"; ">>)>>),
  base  |-> psf(2, <<line("title", <<"b">>), lib("deep")>>),
  deep  |-> psf(2, <<>>),
  extra |-> psf(2, <<line("_lib3", <<"nowhere">>), line("artist", <<"x">>)>>),
  tall  |-> psf(2, <<lib2("deep"), lib("song")>>),
  hen   |-> psf(2, <<lib("egg")>>),
  egg   |-> psf(2, <<lib2("deep"), line("_lib3", <<"hen">>)>>),
  lost  |-> psf(2, <<lib("nowhere")>>),
  torn  |-> psf(2, <<lib("deep")>>),
  short |-> [psf(2, <<lib("extra")>>) EXCEPT !.body = FALSE],
  junk  |-> [psf(2, <<>>) EXCEPT !.header = FALSE],
  one   |-> psf(1, <<lib("oneb"), line("title", <<"t">>)>>),
  oneb  |-> psf(1, <<>>),
  mixed |-> psf(2, <<lib("oneb")>>),
  text  |-> psf(1, <<lib("plain")>>),
  plain |-> [psf(1, <<>>) EXCEPT !.executable = FALSE],
  odd   |-> [psf(1, <<lib("oneb")>>) EXCEPT !.reserved = TRUE],
  other |-> psf(33, <<>>)]

leaf(data, block_size, bad) == [data |-> data, block_size |-> block_size, bad |-> bad]
empty == leaf(<<>>, 0, {})

MCArchives == [f \in {g \in DOMAIN MCContents : MCContents[g].reserved} \ {"torn"} |->
  CASE f = "deep"  -> <<"m">> :> leaf(<<1, 2, 3>>, 2, {}) @@ <<"d", "a">> :> leaf(<<4>>, 1, {})
                        @@ <<"x">> :> empty @@ <<"e", "f", "g">> :> leaf(<<5, 6>>, 3, {})
    [] f = "base"  -> <<"m">> :> leaf(<<7, 8, 9, 10, 11>>, 2, {}) @@ <<"d">> :> leaf(<<12>>, 1, {})
                        @@ <<"x", "y">> :> leaf(<<13>>, 1, {})
    [] f = "song"  -> <<"d", "b">> :> leaf(<<14, 15, 16>>, 1, {1}) @@ <<"e", "f">> :> empty @@ <<"n">> :> empty
    [] f = "extra" -> <<"d", "a">> :> leaf(<<17, 18, 19, 20>>, 2, {1}) @@ <<"n">> :> leaf(<<21>>, 4, {})
    [] OTHER -> <<"m">> :> leaf(<<22>>, 1, {})]

=============================================================================
