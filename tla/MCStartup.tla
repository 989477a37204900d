----------------------------- MODULE MCStartup -----------------------------
(* Two directories with a subdirectory of the same name each, a directory   *)
(* for the copies beside them and one inside.                               *)
EXTENDS Startup

Dirs == {<<>>, <<"a">>, <<"a", "x">>, <<"b">>, <<"b", "x">>, <<"d">>}

Files == {<<"a", "f">>, <<"a", "x", "f">>, <<"a", "x", "g">>, <<"b", "f">>, <<"b", "x", "f">>}

Sockets == {<<"a", "s">>}

L(k, v) == [key |-> k, value |-> v, equal |-> 40, length |-> 60]

(* No '=', and split after 65535 characters, most of them blanks; a first   *)
(* '=' at 65547, which is taken for one at 11.                              *)
Unsplit(line) == [line EXCEPT !.equal = NoEqual, !.length = 65540]
SplitTooSoon(line) == [line EXCEPT !.equal = 65547, !.length = 65548]

SourceLines ==
  {L("Source", p) : p \in {<<"a">>, <<"a", "">>, <<"a", "x">>, <<"b", "x">>, <<"a", "f">>, <<"a", "s">>}}

DestinationLines == {L("Destination", p) : p \in {<<"d">>, <<"a", "x">>}}

OtherLines ==
  {L("Exclude", <<"a", "x">>), L("Exclude", <<"a", "x", "">>), L("Mode", "GodSpeed"), L("ThreadCount", 3),
   L("ThreadCount", 65536), L("MaxLogFiles", 1),
   L("DestinationTopFolderInsteadOfFullPath", "YES"), L("EnableCacheRestoreFromBackup", "NO"),
   L("SourceThreadCount", 2),
   [L("Exclude", <<"a", "f">>) EXCEPT !.equal = NoEqual],
   Unsplit(L("Source", <<"b">>)), SplitTooSoon(L("ThreadCount", 2))}

Lines == SourceLines \cup DestinationLines \cup OtherLines

LogTimes == {2, 3}

StartTimes == {1, 4}
=============================================================================
