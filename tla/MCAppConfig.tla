----------------------------- MODULE MCAppConfig -----------------------------
(* Model-checking instance of AppConfig: every command line of at most    *)
(* four arguments over options, aliases and words chosen at the edges of  *)
(* the validators (9 devices, a 63-byte size, 2 threads, a non-number).   *)
EXTENDS AppConfig, SequencesExt

MaxArgs == 4

Tokens ==
  {Long("num-devices"), Long("pattern"), Short("s"), Long("threads"),
   Long("verbose"), Long("help"), Long("bogus"),
   Word("2"), Word("9"), Word("63"), Word("custom"), Word("x")}

MCArgs == BoundedSeq(Tokens, MaxArgs)

\* The numbers above and the numeric defaults of create_otpu_options.
MCNumbers == {1, 2, 9, 10, 63, 1000, 4096}
=============================================================================
