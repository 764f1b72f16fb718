------------------------------- MODULE MCFiles -------------------------------
EXTENDS Files, TLC

D == <<"d">>
F == <<"f">>
G == <<"g">>
S == <<"s">>
DF == <<"d", "f">>

Entry(path, flag, size) == [path |-> path, flag |-> flag, size |-> size]
Root == Entry(<<>>, "DIRTYPE", <<0, -1>>)

MCContents ==
  { <<Root, Entry(<<F>>, "REGTYPE", <<0, 3, -1>>), Entry(<<D>>, "DIRTYPE", <<0, 0>>),
             Entry(<<D, G>>, "AREGTYPE", <<2, -1>>), Entry(<<D, S>>, "REGTYPE", <<0>>)>>,
    <<Root, Entry(<<D>>, "DIRTYPE", <<0, 0>>), Entry(<<D, S>>, "DIRTYPE", <<0, -1>>),
             Entry(<<D, S, G>>, "REGTYPE", <<-1, 1>>), Entry(<<D, F>>, "SYMTYPE", <<0>>)>>,
    <<Root, Entry(<<DF>>, "DIRTYPE", <<0>>), Entry(<<DF, G>>, "REGTYPE", <<1, 1>>),
             Entry(<<F>>, "DIRTYPE", <<0>>)>> }

MCPaths ==
  {Abs(parts) : parts \in {<<F>>, <<D>>, <<Dev, Ramdisk>>}}

MCLookups ==
  MCPaths \union {[abs |-> FALSE, parts |-> <<F>>]} \union
    {Abs(parts) : parts \in {<<>>, <<D, G>>, <<D, S>>, <<D, S, G>>, <<Dev>>, <<D, F>>, <<D, <<>>>>, <<F, G>>, <<G>>}}

Twins == Permutations(Procs)
=============================================================================
