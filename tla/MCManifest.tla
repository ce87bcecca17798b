----------------------------- MODULE MCManifest -----------------------------
(***************************************************************************)
(* What a launch brings: manifests, as short texts over the characters     *)
(* that matter, options and configurations; and the numbers of a task's    *)
(* options, below, at and above every threshold of WithDefaults.  No code  *)
(* reads both, so that a behaviour is about the one or about the other.    *)
(***************************************************************************)
EXTENDS Manifest, RetryOptions

Chars == {"o", "y", "b", "1", "s", ":", " ", "[", "]", "="}
Upto(n) == UNION {[1..k -> Chars] : k \in 0..n}

\* --k=v, or v alone with no dash.
Opt(k, v) == <<"-", "-">> \o k \o <<"=">> \o v

TypedValues == {<<"a">>, <<"o", ":", "a">>, <<"b", "-", "1">>, <<"1">>, <<"-", "1", "1">>,
           <<"y", " ", "1", "s">>, <<"a", " ", "\"", "b">>, <<" ", "=">>,
           <<"[", "o", ":", "b", " ", "b", "]">>, <<"1", "b">>, <<>>, <<"\"", "a">>,
           <<"l", " ", "l", "=", "[", "b", "]">>, <<"a", "\\", " ", "b">>}
Typed1 == {Opt(k, v) : k \in {<<"a">>, <<"b", "o">>}, v \in TypedValues} \cup {<<"b">>}

MCArgvs == {<<Opt(<<"a">>, v)>> : v \in Upto(3)} \cup [1..2 -> Typed1]
           \cup {<<x, y, Opt(<<"a">>, <<"a">>)>> : x, y \in Typed1}
MCTexts == Upto(4) \cup {<<"l", " ", "l", "=", "[", "o", ":", "b", " ", "b", "]">>,
                          <<"l", " ", "{", "l", " ", ":", "[", "b", "]", "}">>,
                          <<"l", ":", "a", " ", "@", "a", " ">>, <<"@", "a">>, <<"@", "b">>,
                          <<"y", " ", "d", "=", "1">>}

Str(s) == <<"str", s>>
Obj(f) == <<"obj", f>>
Two == Obj((<<"o", ":", "a">> :> Nothing) @@ (<<"b">> :> Nothing))
MCConfigs == {
    Two, Str(<<"y">>), <<"num", <<"1">>>>, Obj(<<"e">> :> Nothing),
    Obj(<<"y">> :> Obj(<<"d">> :> <<"num", <<"1">>>>)),
    Obj(<<"y", " ", "1", "s">> :> Obj(<<"d">> :> Str(<<"1", "u">>))),
    Obj(<<"o", ":", "a", " ", "b">> :> Obj(<<"n">> :> Str(<<"s">>))),
    Obj(<<"o">> :> Str(<<"s">>)),
    Obj(<<"l">> :> Obj(<<"l">> :> <<"list", <<Two, Str(<<"b">>)>>>>)),
    <<"list", <<>>>>, <<"list", <<Str(<<"q">>), Two, Str(<<"y">>)>>>>,
    <<"list", <<Two, Str(<<"o", " ", "s">>)>>>>, <<"list", <<Str(<<"e">>)>>>>}

\* Counts, periods, durations and scales of WithDefaults.
MCCounts == {0, 1, 5, 10, 11}
MCPeriods == {0, Second, 30 * Second, Minute, 30 * Minute, 2 * Hour}
MCDurations == {-1, 0, 100, 500, 31 * Second}
MCScales == {0, 1, 20}

\* Options that WithDefaults changes nothing of, and a manifest that went nowhere.
PlainOptions == [limit |-> MaxRate, scale |-> 20, backoff |-> 500,
                 stopTimeout |-> 500, minUptime |-> 0]
NoManifest == /\ registry = "tasks" /\ input = <<"text", <<>>>> /\ options = Got(Nothing, <<>>)
              /\ stage = "rejected" /\ value = Bad /\ trips = 0

LaunchInit ==
    \/ Init /\ given = PlainOptions /\ opts = given /\ depth = MaxDepth
    \/ OptionsInit /\ NoManifest
LaunchNext == \/ Next /\ UNCHANGED optionsVars
              \/ NewWorker /\ UNCHANGED vars
LaunchSpec == LaunchInit /\ [][LaunchNext]_<<vars, optionsVars>>

MCFiles == <<"a">> :> Obj(<<"l">> :> <<"list", <<Str(<<"o", ":", "s">>)>>>>)
=============================================================================
