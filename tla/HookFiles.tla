------------------------------ MODULE HookFiles ------------------------------
(***************************************************************************)
(* way-island init (cli_init.go), which adds its hook to the settings of   *)
(* Claude and to the hooks of Codex and turns Codex's hooks on.  A file is  *)
(* read, changed and written back whole, and may be edited by others or    *)
(* left half written by a crash.  The hooks of one event stand for those   *)
(* of every event that init writes, which the code treats alike.  A hook   *)
(* is its command, a matcher the sequence of its hooks; what else a file   *)
(* has, and the structs of the code have no field for, is told by flags.   *)
(* A file that does not exist is None.                                     *)
(***************************************************************************)
EXTENDS Lists

CONSTANTS
    Texts,      \* commands of hooks and lines of config.toml
    Hooks,      \* what hook files hold
    Configs,    \* what config.toml holds: sequences of lines
    MaxRuns,    \* bound: how often init is run
    Garbage     \* a hook file that is not JSON

VARIABLES
    claude, codex, config,   \* the three files
    doing,      \* what the running init is about to do
    command,    \* the command that it installs: with --debug or without
    held,       \* what it has read of the file it is to write
    runs,
    first,      \* history: what the files held before the first run
    touched     \* history: somebody edited a file, or a write was cut short

files == <<claude, codex, config>>
hookVars == <<files, doing, command, held, runs, first, touched>>

Managed == {"plain", "debug"} \* commands that contain "way-island hook"

\* Lines of config.toml, as the code reads them: the table of its feature, the header
\* of a table, and an assignment to codex_hooks.  "[1, 2]" stands for a line inside a
\* value that goes over several lines, "hooks_x = 1" for a key that codex_hooks begins.
Headers == {"[features]", "[other]", "[1, 2]"}
Settings == {"hooks = true", "hooks = false"}
Header(line) == line \in Headers
Assigns(line) == line \in Settings \cup {"hooks_x = 1"}

\* The hooks of an event, and a file that holds them.
Matchers == Seq(Seq(Texts))
HookFile ==
    [matchers : Matchers,   \* those that have the shape of the structs
     extras : BOOLEAN,      \* they or their hooks have other fields: timeout, url, prompt
     odd : BOOLEAN,         \* the event has an entry of another shape beside them
     keys : BOOLEAN]        \* the file has keys beside "hooks"

\* What is assumed of the constants.
HookAssumption ==
    /\ MaxRuns \in Nat
    /\ Managed \cup {"[features]", "notify"} \cup Settings \subseteq Texts
    /\ Hooks \subseteq HookFile /\ Configs \subseteq Seq(Texts)
    /\ \A x \in {None, Garbage} : x \notin HookFile /\ x \notin Seq(Texts)

-----------------------------------------------------------------------------
(* The functions.                                                          *)

OthersOf(matcher) == Keep(matcher, Texts \ Managed)

\* ensureClaudeHookEntry and ensureCodexHookEntry; the mutant adds without looking.
AddHook(matchers, c) == Append(matchers, <<c>>)
EnsureHookEntry(matchers, c) ==
    LET managed == {i \in DOMAIN matchers : \E h \in Managed : Contains(matchers[i], h)}
        others == [i \in DOMAIN matchers |-> OthersOf(matchers[i])]
    IN IF managed = {} THEN Append(others, <<c>>)
       ELSE [others EXCEPT ![Min(managed)] = Append(@, c)]

\* mergeCodexHooksFeature; the mutant adds its line at the end of the file.
MergeAtEnd(lines) == lines \o <<"hooks = true">>
MergeFeature(lines) ==
    LET at == SelectInSeq(lines, LAMBDA l : l = "[features]")
        next == SelectInSeq(SubSeq(lines, at + 1, Len(lines)),
                            LAMBDA l : Header(l) \/ Assigns(l)) + at
    IN IF at = 0 THEN lines \o <<"[features]", "hooks = true">>
       ELSE IF next = at THEN lines \o <<"hooks = true">>
       ELSE IF Header(lines[next]) THEN InsertAt(lines, next, "hooks = true")
       ELSE ReplaceAt(lines, next, "hooks = true")

-----------------------------------------------------------------------------
(* Runs.                                                                   *)

HookInit ==
    /\ \/ claude \in Hooks \cup {Garbage} /\ codex \in {None, Garbage} /\ config = None
       \/ claude = None /\ codex \in Hooks \cup {Garbage} /\ config = None
       \/ claude = None /\ codex = None /\ config \in Configs \cup {None}
    /\ doing = "start" /\ command = None /\ held = None /\ runs = 0
    /\ first = files /\ touched = FALSE

Proceed(label) == doing' = label /\ UNCHANGED <<command, runs, first, touched>>

\* runInit with the targets of its flags; with none it configures both.
RunInit(c, target) ==
    /\ doing \in {"start", "ok", "failed"} /\ runs < MaxRuns
    /\ runs' = runs + 1 /\ command' = c /\ doing' = target
    /\ UNCHANGED <<files, held, first, touched>>

\* A file that is missing is as good as empty.
Blank == [matchers |-> <<>>, extras |-> FALSE, odd |-> FALSE, keys |-> FALSE]
LinesOf(file) == IF file = None THEN <<>> ELSE file
HasOdd(file) == file \notin {None, Garbage} /\ file.odd

\* loadJSONFile and toClaudeHookMatchers: fields without a place in the structs are lost,
\* and with one odd entry every matcher of the event; other keys stay in the map that is
\* written back.  The mutant goes on with what it has found.
ClaudeAsFound(file) == file
ClaudeHeld(file) ==
    IF file = None THEN Blank
    ELSE [Blank EXCEPT !.matchers = IF file.odd THEN <<>> ELSE file.matchers,
                       !.keys = file.keys]

\* loadCodexHooksFile, which keeps the hooks only; an odd entry is an error.
CodexHeld(file) ==
    IF file = None THEN Blank ELSE [Blank EXCEPT !.matchers = file.matchers]

ReadClaude ==
    /\ doing \in {"claude", "both"}
    /\ \/ /\ claude # Garbage /\ Proceed(IF doing = "both" THEN "saveBoth" ELSE "saveClaude")
          /\ held' = ClaudeHeld(claude)
       \/ Proceed("failed") /\ UNCHANGED held
    /\ UNCHANGED files

ReadCodex ==
    /\ doing = "codex"
    /\ \/ /\ codex # Garbage /\ ~HasOdd(codex) /\ Proceed("saveCodex")
          /\ held' = CodexHeld(codex)
       \/ Proceed("failed") /\ UNCHANGED held
    /\ UNCHANGED files

\* The file with the hook of way-island in it.
Installed(file, c) == [file EXCEPT !.matchers = EnsureHookEntry(@, c)]

\* saveJSONFile fails before it opens the file, or writes it.
SaveClaude ==
    /\ doing \in {"saveClaude", "saveBoth"}
    /\ \/ /\ claude' = Installed(held, command)
          /\ Proceed(IF doing = "saveBoth" THEN "codex" ELSE "ok")
       \/ Proceed("failed") /\ UNCHANGED claude
    /\ UNCHANGED <<codex, config, held>>

SaveCodex ==
    /\ doing = "saveCodex"
    /\ \/ codex' = Installed(held, command) /\ Proceed("config")
       \/ Proceed("failed") /\ UNCHANGED codex
    /\ UNCHANGED <<claude, config, held>>

\* enableCodexHooksFeature
ReadConfig ==
    /\ doing = "config"
    /\ \/ Proceed("saveConfig") /\ held' = LinesOf(config)
       \/ Proceed("failed") /\ UNCHANGED held
    /\ UNCHANGED files

SaveConfig ==
    /\ doing = "saveConfig"
    /\ \/ config' = MergeFeature(held) /\ Proceed("ok")
       \/ Proceed("failed") /\ UNCHANGED config
    /\ UNCHANGED <<claude, codex, held>>

\* os.WriteFile truncates first: a crash, or a full disk, leaves the file empty.
CutShort ==
    /\ touched' = TRUE /\ doing' = "failed"
    /\ \/ doing \in {"saveClaude", "saveBoth"} /\ claude' = Garbage /\ UNCHANGED <<codex, config>>
       \/ doing = "saveCodex" /\ codex' = Garbage /\ UNCHANGED <<claude, config>>
       \/ doing = "saveConfig" /\ config' = <<>> /\ UNCHANGED <<claude, codex>>
    /\ UNCHANGED <<command, held, runs, first>>

\* Somebody adds a hook of their own while init runs.
Edit ==
    /\ doing \notin {"start", "ok", "failed"} /\ claude \notin {None, Garbage} /\ ~touched
    /\ claude' = [claude EXCEPT !.matchers = Append(@, <<"notify">>)] /\ touched' = TRUE
    /\ UNCHANGED <<codex, config, doing, command, held, runs, first>>

HookNext ==
    \/ \E c \in Managed, target \in {"claude", "codex", "both"} : RunInit(c, target)
    \/ ReadClaude \/ ReadCodex \/ ReadConfig \/ SaveClaude \/ SaveCodex \/ SaveConfig
    \/ CutShort \/ Edit

HookSpec == HookInit /\ [][HookNext]_hookVars

-----------------------------------------------------------------------------
(* Properties.                                                             *)

\* Labels keep their ranges, and what is to be written back has been understood.
HookTypeOK ==
    /\ doing \in {"start", "claude", "both", "codex", "config", "saveClaude", "saveBoth",
                  "saveCodex", "saveConfig", "ok", "failed"}
    /\ command \in Managed \cup {None} /\ runs \in 0..MaxRuns
    /\ doing \in {"saveClaude", "saveBoth", "saveCodex"} =>
           held # None /\ ~held.odd /\ ~held.extras
    /\ doing = "saveConfig" => held # None

MatchersOf(file) == IF file \in {None, Garbage} THEN <<>> ELSE file.matchers
CommandsOf(file) == FlattenSeq(MatchersOf(file))
HasKeys(file) == file \notin {None, Garbage} /\ file.keys

\* The hooks of others are as many, in their order, in as many matchers or one more.
KeepsOthers(before, now) ==
    /\ OthersOf(CommandsOf(now)) = OthersOf(CommandsOf(before))
    /\ Len(MatchersOf(now)) \in Len(MatchersOf(before)) .. Len(MatchersOf(before)) + 1

\* A file that is not what it was holds the hook of way-island once.
Installs(before, now) ==
    now # before => Len(Keep(CommandsOf(now), Managed)) = 1

\* Runs of init, whichever succeed, leave the commands of others in place, and each file
\* that they have written with one hook of way-island, so that an event is never reported
\* twice (isManagedWayIslandHookCommand); Claude's other settings stay.  Not promised,
\* and lost, are the fields of a hook that the structs do not have and the other keys of
\* Codex's file (cli_init.go:17-40), and every matcher of a Claude event that has an odd
\* entry (cli_init.go:285), which the fourth line leaves out.
OneHookBesideOthers ==
    ~touched =>
        /\ Installs(first[1], claude) /\ Installs(first[2], codex)
        /\ KeepsOthers(first[2], codex)
        /\ HasOdd(first[1]) \/ KeepsOthers(first[1], claude)
        /\ HasKeys(first[1]) => HasKeys(claude)

\* The lines as TOML reads them: a header may have a comment after it, or blanks and
\* quotes inside, a key may have quotes, and a line of an array is no header.
FeaturesHeaders == {"[features]", "[features] #"}
TomlHeader(line) == line \in FeaturesHeaders \cup {"[other]", "[other] #"}
TomlSetting(line) == line \in Settings \cup {"'hooks' = false"}

\* The lines that the code takes for something else than TOML (cli_init.go:370, 386, 401).
Misread(line) ==
    \/ ~(Header(line) <=> TomlHeader(line))
    \/ ~(line = "[features]" <=> line \in FeaturesHeaders)
    \/ ~(Assigns(line) <=> TomlSetting(line))

\* The value that TOML gives codex_hooks in the table features, in lines that have
\* each table and each key once.
TableAt(lines, i) == SelectLastInSeq(SubSeq(lines, 1, i), TomlHeader)
InFeatures(lines, i) == TableAt(lines, i) # 0 /\ lines[TableAt(lines, i)] \in FeaturesHeaders
Values(lines) ==
    {i \in DOMAIN lines : TomlSetting(lines[i]) /\ InFeatures(lines, i)}
Valid(lines) ==
    /\ Cardinality(Values(lines)) <= 1
    /\ Cardinality({i \in DOMAIN lines : lines[i] \in FeaturesHeaders}) <= 1

\* A run for Codex that succeeds turns the hooks on, and leaves a file that TOML accepts
\* and every line about something else in place - if the file held no line that the code
\* misreads.  With such a line it may write a second table, put the key into another one
\* or into an array, or overwrite another key.
CodexHooksOn ==
    LET before == LinesOf(first[3])
        rest(lines) == Keep(lines, Texts \ Settings)
    IN config # first[3] /\ ~touched /\ Valid(before) /\ (\A l \in ToSet(before) : ~Misread(l)) =>
          /\ Valid(config) /\ \E i \in Values(config) : config[i] = "hooks = true"
          /\ rest(before) \in {rest(config), Keep(rest(config), Texts \ {"[features]"})}
=============================================================================
