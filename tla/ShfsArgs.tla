------------------------------ MODULE ShfsArgs ------------------------------
(* parse_args of shfs_admin.c and the exit main (line 1131) takes on its     *)
(* result.  One step is one round of the getopt_long loop: the call to       *)
(* getopt_long (glibc, modelled by what it returns) and the switch case on  *)
(* its result.  The words of argv are abstracted to the option each one     *)
(* spells ("-a", "-x" for any option not in short_opts, "--") and "w" for    *)
(* any other word (a path, a digest or a device).  getopt permutes: the     *)
(* words that are not options are skipped and become the device list.      *)
EXTENDS Naturals, Sequences, SequencesExt

CONSTANTS
    Argvs,      \* the argument vectors argv[1..argc-1] to check
    DMax,       \* D_MAX of tools_common.h
    Faults      \* subset of {"OOM"}: calloc/strdup may fail

OptWords  == {"-h", "-?", "-V", "-v", "-f", "-a", "-r", "-c", "-d", "-C",
              "-m", "-n", "-l", "-i"}
Words     == OptWords \cup {"-x", "--", "w"}
\* options declared required_argument / with ':' in short_opts
ArgOpts   == {"-a", "-r", "-c", "-d", "-m", "-n"}
\* the tokens args_add_token appends, by option
Action    == "-a" :> "ADDOBJ" @@ "-r" :> "RMOBJ" @@ "-c" :> "CATOBJ"
             @@ "-d" :> "SETDEFOBJ" @@ "-C" :> "CLEARDEFOBJ" @@ "-l" :> "LSOBJS"
             @@ "-i" :> "SHOWINFO"
TokenOpts == DOMAIN Action

VARIABLES
    argv,       \* the argument vector
    optind,     \* getopt's scan position
    nbDevs,     \* the words skipped as operands: args->nb_devs
    tokens,     \* args->tokens: <<[action, mime, name]>>, ctoken is the last
    verbosity,
    force,
    status,     \* "parse" while in the loop, then how the process goes on
    seen        \* the options getopt_long has returned, as argv spelt them

vars == <<argv, optind, nbDevs, tokens, verbosity, force, status, seen>>

\* the index of the first option word at or after position i
NextOptWord(i) ==
    LET opts == {k \in i .. Len(argv) : argv[k] # "w"}
    IN  IF opts = {} THEN Len(argv) + 1 ELSE Min(opts)

\* what one call of getopt_long returns: the option (or "?" for an unknown
\* option or a missing argument, or "end"), the word it read, how many
\* operands it passed over and where the scan goes on
GetOpt(i) ==
    LET j == NextOptWord(i)
        w == IF j <= Len(argv) THEN argv[j] ELSE "end"
    IN  CASE w = "end" ->
               [opt |-> "end", word |-> w, skip |-> j - i, next |-> j]
          [] w = "--" ->
               [opt |-> "end", word |-> w, skip |-> Len(argv) - i, next |-> Len(argv) + 1]
          [] w = "-x" ->
               [opt |-> "?", word |-> w, skip |-> j - i, next |-> j + 1]
          [] w \in ArgOpts /\ j = Len(argv) ->
               [opt |-> "?", word |-> "missing", skip |-> j - i, next |-> j + 1]
          [] w \in ArgOpts ->
               [opt |-> w, word |-> w, skip |-> j - i, next |-> j + 2]
          [] OTHER ->
               [opt |-> w, word |-> w, skip |-> j - i, next |-> j + 1]

Init == /\ argv \in Argvs
        /\ optind = 1
        /\ nbDevs = 0
        /\ tokens = <<>>
        /\ verbosity = 0
        /\ force = 0
        /\ status = "parse"
        /\ seen = <<>>

\* one round of the loop: call getopt_long, then run the case for opt
Round(opts) ==
    LET g == GetOpt(optind) IN
    /\ status = "parse"
    /\ g.opt \in opts
    /\ optind' = g.next
    /\ nbDevs' = nbDevs + g.skip
    /\ seen' = IF g.opt = "end" THEN seen ELSE Append(seen, g.word)

\* the option the current round's case runs for
Opt == GetOpt(optind).opt

\* case 'h', case '?': print_usage, exit(EXIT_SUCCESS)
Usage == /\ Round({"-h", "-?", "?"})
         /\ status' = "usage"
         /\ UNCHANGED <<argv, tokens, verbosity, force>>

\* case 'V': print_version, exit(EXIT_SUCCESS)
Version == /\ Round({"-V"})
           /\ status' = "version"
           /\ UNCHANGED <<argv, tokens, verbosity, force>>

\* case 'v': verbosity grows up to D_MAX
Verbose == /\ Round({"-v"})
           /\ verbosity' = IF verbosity < DMax THEN verbosity + 1 ELSE verbosity
           /\ UNCHANGED <<argv, tokens, force, status>>

\* case 'f'
Force == /\ Round({"-f"})
         /\ force' = 1
         /\ UNCHANGED <<argv, tokens, verbosity, status>>

\* args_add_token: a calloc'ed token (no mime, no name) appended after
\* ctoken; calloc failing is die()
NewToken(o) == [action |-> Action[o], mime |-> FALSE, name |-> FALSE]

\* what an allocation (calloc, or strdup in parse_args_setval_str) may
\* return; -ENOMEM makes parse_args die(), exit(EXIT_FAILURE)
AllocResults == {"ok"} \cup (IF "OOM" \in Faults THEN {"ENOMEM"} ELSE {})

\* cases a r c d C l i: append a token; a, r, c, d copy optarg into it
AddToken == /\ Round(TokenOpts)
            /\ \E r \in AllocResults :
                 IF r = "ok" THEN tokens' = Append(tokens, NewToken(Opt)) /\ UNCHANGED status
                 ELSE status' = "die" /\ UNCHANGED tokens
            /\ UNCHANGED <<argv, verbosity, force>>

\* cases m, n: only after an add-obj token, else return -EINVAL; the value
\* replaces an earlier one (parse_args_setval_str frees it)
SetOptStr == /\ Round({"-m", "-n"})
             /\ IF tokens = <<>> \/ Last(tokens).action # "ADDOBJ"
                THEN status' = "einval" /\ UNCHANGED tokens
                ELSE \E r \in AllocResults :
                       IF r = "ok"
                       THEN /\ tokens' = [tokens EXCEPT ![Len(tokens)] =
                                            [@ EXCEPT !.mime = (@ \/ Opt = "-m"),
                                                      !.name = (@ \/ Opt = "-n")]]
                            /\ UNCHANGED status
                       ELSE status' = "die" /\ UNCHANGED tokens
             /\ UNCHANGED <<argv, verbosity, force>>

\* getopt_long returns -1: the remaining words are the devices; none is
\* -EINVAL, else parse_args returns 0 (the token check loop changes nothing)
EndOfOptions == /\ Round({"end"})
                /\ status' = IF nbDevs' = 0 THEN "einval" ELSE "mount"
                /\ UNCHANGED <<argv, tokens, verbosity, force>>

Next == Usage \/ Version \/ Verbose \/ Force \/ AddToken \/ SetOptStr \/ EndOfOptions

Spec == Init /\ [][Next]_vars

\* main: parse_args < 0 is exit(EXIT_FAILURE); usage and version exit
\* with EXIT_SUCCESS inside parse_args; "mount" goes on to mount_shfs
ExitStatus == CASE status \in {"usage", "version"} -> 0
                [] status \in {"einval", "die"}    -> 1
                [] OTHER                           -> -1

-----------------------------------------------------------------------------
TypeOK == /\ argv \in Seq(Words)
          /\ optind \in 1 .. Len(argv) + 2
          /\ nbDevs \in 0 .. Len(argv)
          /\ tokens \in Seq([action : Range(Action),
                             mime : BOOLEAN, name : BOOLEAN])
          /\ verbosity \in 0 .. DMax
          /\ force \in {0, 1}
          /\ status \in {"parse", "usage", "version", "einval", "die", "mount"}

\* spec 6 and 7: an unknown flag, or an option missing its argument, is an
\* invalid argument and the process exits nonzero.  The code hands getopt's
\* '?' for both to the help case, which exits with EXIT_SUCCESS.
InvalidArgumentFails ==
    (\E k \in DOMAIN seen : seen[k] \in {"-x", "missing"}) => ExitStatus # 0
=============================================================================
