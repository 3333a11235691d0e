-------------------------------- MODULE Shell --------------------------------
(***************************************************************************)
(* The shell (shell/shell.c) with its built-in commands                     *)
(* (shell/builtin_cmd.c, cmd_hash.c), the table they are found in           *)
(* (lib/kernel/hash.c) and the pipe between the commands of a line          *)
(* (shell/pipe.c, sys_close, fork and exit).                                *)
(*                                                                         *)
(* The shell reads keys into cmd_line, cuts the line into commands and runs *)
(* them one after the other, built-in ones itself and others in a child it  *)
(* waits for.  The commands of one line share one pipe: stdout of all but   *)
(* the last and stdin of all but the first are redirected to it.            *)
(***************************************************************************)
EXTENDS Integers, Sequences, FiniteSets, SequencesExt

CONSTANTS
    Name,           \* characters other than "/", ".", " " and "|"
    cmd_len,        \* size of cmd_line
    cache_len,      \* size of cwd_cache, which cmd_line follows in memory
    MAX_ARG_NR,     \* size of argv
    PIPE_BUF_SIZE,
    cmds,           \* the names of the built-in commands, in the order of cmds[]
    Kind,           \* what each of them does: "cd", "path" or "plain"
    capacity,       \* of the hash table
    Code,           \* the code of a character
    HashMod,        \* number of hash values, 2^32 in the code
    Dirs,           \* the directories there are
    Outputs         \* how much a command may write at once

ASSUME ShellAssumption ==
    /\ cmd_len \in Nat \ {0} /\ cache_len \in Nat
    /\ MAX_ARG_NR \in Nat \ {0} /\ capacity \in Nat \ {0}
    /\ PIPE_BUF_SIZE \in Nat \ {0} /\ HashMod \in Nat \ {0}
    /\ Outputs \subseteq Nat
    /\ <<"/">> \in Dirs

Blank == " "
Char == Name \cup {"/", ".", Blank, "|"}

ASSUME CharAssumption ==
    /\ Name \cap {"/", ".", Blank, "|", "BS", "^U", "NUL"} = {}
    /\ cmds \in Seq(Seq(Char))
    /\ \A i \in 1..Len(cmds) : Kind[cmds[i]] \in {"cd", "path", "plain"}
    /\ Code \in [Char -> Nat]

\* What a key leaves in the buffer that no command may contain.
BS == "BS"
CtrlU == "^U"
NUL == "NUL"
Key == Char \cup {BS, CtrlU}

VARIABLES
    at,             \* where in my_shell the shell is, "blocked" or "stopped"
    then,           \* where it goes on when the command is over
    buf, pos,       \* cmd_line and readline's pos
    rest, each_cmd, \* what of the line is still to be executed, and where in cmd_line it is
    argv,           \* what cmd_parse has made of a command
    cwd,            \* the working directory
    clear,          \* the last call of make_clear_abs_path and its result
    fd_table,       \* of the shell: global slots, -1 for none
    child_fds,      \* of the child, <<>> if there is none
    count, bytes,   \* of the pipe: fd_pos of its slot, and how full it is
    line,           \* history: the line as the user means it
    nr,             \* history: number of the command being executed
    erased          \* history: rest is no longer what was typed: "all" of it is gone, or
                    \* the end of a "path" is in its place

inputVars == <<buf, pos>>
pipeVars == <<fd_table, child_fds, count, bytes>>
shellVars == <<at, then, inputVars, rest, each_cmd, argv, cwd, clear, pipeVars, line, nr, erased>>

\* The slot of the pipe: the first free one, none of the files is open.
Slot == 3
Fd == 0..4

\* The length of the longest prefix of s of characters in S.
Span(s, S) == CHOOSE n \in 0..Len(s) :
    /\ \A i \in 1..n : s[i] \in S
    /\ n = Len(s) \/ s[n + 1] \notin S

From(s, i) == SubSeq(s, i, Len(s))

----------------------------------------------------------------------------
(* Mutations of the definitions below, used to test the properties.        *)

\* readline does not put the end of the string where the enter key was.
Terminated_not == buf

\* wash_path cuts the slash of the root, too.
Up_root(new) == SubSeq(new, 1, SelectLastInSeq(new, LAMBDA c : c = "/") - 1)

\* fork does not count the descriptors of the child.
Forked_not == count

----------------------------------------------------------------------------
(* Paths.                                                                   *)

\* path_parse: the first name of a path, and what follows it; <<>> is NULL.
path_parse(path) ==
    LET sub == From(path, Span(path, {"/"}) + 1)
        n == Span(sub, Key \ {"/"})
    IN  [name |-> SubSeq(sub, 1, n), rest |-> From(sub, n + 1)]

\* wash_path: ".." cuts the path at its last slash, which stays if it is the first.
Up(new) ==
    LET slash == SelectLastInSeq(new, LAMBDA c : c = "/")
    IN  IF slash # 1 THEN SubSeq(new, 1, slash - 1) ELSE SubSeq(new, 1, 1)

Extended(new, name) ==
    CASE name = <<".", ".">> -> Up(new)
      [] name = <<".">>      -> new
      [] OTHER               -> (IF new = <<"/">> THEN new ELSE new \o <<"/">>) \o name

\* What is left of the path, and new, after k names; no path has more names
\* than characters.
wash_path(path) ==
    LET left[k \in 0..Len(path)] == IF k = 0 THEN path ELSE path_parse(left[k - 1]).rest
        new[k \in 0..Len(path)] ==
            IF k = 0 THEN <<"/">>
            ELSE LET name == path_parse(left[k - 1]).name
                 IN  IF name = <<>> THEN new[k - 1] ELSE Extended(new[k - 1], name)
    IN  new[Len(path)]

make_clear_abs_path(path) ==
    wash_path(IF path[1] = "/" THEN path
              ELSE IF cwd = <<"/">> THEN cwd \o path
              ELSE cwd \o <<"/">> \o path)

----------------------------------------------------------------------------
(* Commands.                                                                *)

string_hash(word) ==
    LET h[n \in 0..Len(word)] ==
            IF n = 0 THEN 0 ELSE (31 * h[n - 1] + Code[word[n]]) % HashMod
    IN  h[Len(word)] % capacity

\* hash_insert; the last node of a chain is not compared with the key.
hash_insert(nodes, key) ==
    LET chain == nodes[string_hash(key)]
        known == \E i \in 1..(Len(chain) - 1) : chain[i] = key
    IN  IF known THEN nodes ELSE [nodes EXCEPT ![string_hash(key)] = Append(@, key)]

cmd_list ==
    LET nodes[n \in 0..Len(cmds)] ==
            IF n = 0 THEN [i \in 0..(capacity - 1) |-> <<>>]
            ELSE hash_insert(nodes[n - 1], cmds[n])
    IN  nodes[Len(cmds)]

\* cmd2func: the built-in command of that name, or <<>> for NULL.
cmd2func(word) ==
    LET chain == cmd_list[string_hash(word)]
        node == SelectInSeq(chain, LAMBDA key : key = word)
    IN  IF node = 0 THEN <<>> ELSE chain[node]

\* cmd_parse with the token Blank: next at each word, until nothing is left.
cmd_parse(str) ==
    LET Skipped(t) == From(t, Span(t, {Blank}) + 1)
        Word(t) == Span(t, Key \ {Blank})
        next[k \in 0..Len(str)] ==
            IF k = 0 THEN Skipped(str)
            ELSE LET prev == next[k - 1] IN Skipped(From(prev, Word(prev) + 2))
        argc == Min({k \in 0..Len(str) : next[k] = <<>>})
    IN  [k \in 1..argc |-> SubSeq(next[k - 1], 1, Word(next[k - 1]))]

\* The string up to the first "|" of the line, and what follows it.
Piece(str) == SubSeq(str, 1, Span(str, Key \ {"|"}))
Behind(str) == From(str, Span(str, Key \ {"|"}) + 2)

----------------------------------------------------------------------------
(* readline.                                                                *)

Read == at = "read" /\ pos < cmd_len
Stored(c) == [buf EXCEPT ![pos] = c]
runVars == <<then, rest, each_cmd, argv, cwd, clear, pipeVars, nr, erased>>

ReadChar(c) ==
    /\ Read
    /\ buf' = Stored(c)
    /\ pos' = pos + 1
    /\ line' = Append(line, c)
    /\ UNCHANGED <<at, runVars>>

\* A backspace is stored at pos before buf[0] is looked at.
Backspaced(p) == IF Stored(BS)[0] # BS THEN p - 1 ELSE p
ReadBackspace ==
    /\ Read
    /\ buf' = Stored(BS)
    /\ pos' = Backspaced(pos)
    /\ line' = IF line = <<>> THEN line ELSE Front(line)
    /\ UNCHANGED <<at, runVars>>

\* ctrl + l clears the screen and shows the line again.
ReadCtrlL ==
    /\ Read
    /\ buf' = Stored(NUL)
    /\ UNCHANGED <<at, pos, line, runVars>>

\* ctrl + u; buf[0] keeps what it holds.
ReadCtrlU ==
    /\ Read
    /\ buf' = [i \in 0..(cmd_len - 1) |-> IF i \in 1..pos THEN NUL
                                    ELSE IF i = pos THEN CtrlU ELSE buf[i]]
    /\ pos' = 0
    /\ line' = <<>>
    /\ UNCHANGED <<at, runVars>>

\* The buffer is full, and the key that is read goes behind its end.
ReadTooMuch ==
    /\ at = "read" /\ pos = cmd_len
    /\ at' = "stopped"
    /\ UNCHANGED <<inputVars, line, runVars>>

\* The string in cmd_line once enter has been read: up to the first NUL.
Terminated == Stored(NUL)
CmdLine == LET end == CHOOSE i \in 0..cmd_len :
                        /\ i < cmd_len => Terminated[i] = NUL
                        /\ \A j \in 0..(i - 1) : Terminated[j] # NUL
           IN  [i \in 1..end |-> Terminated[i - 1]]

Cleared == buf' = [i \in 0..(cmd_len - 1) |-> NUL] /\ pos' = 0

\* Enter on an empty line: prompt and readline again.
ReadNothing ==
    /\ Read
    /\ CmdLine = <<>>
    /\ Cleared
    /\ line' = <<>>
    /\ UNCHANGED <<at, runVars>>

\* Enter on one command.
ReadCommand ==
    /\ Read
    /\ CmdLine # <<>> /\ ~ Contains(CmdLine, "|")
    /\ at' = "last" /\ then' = "read"
    /\ rest' = CmdLine /\ each_cmd' = 0
    /\ Cleared
    /\ UNCHANGED <<argv, cwd, clear, pipeVars, line, nr, erased>>

\* sys_fd_redirect.
fd_redirect(fds, old, new) == [fds EXCEPT ![old] = IF new < 3 THEN new ELSE fds[new]]

\* sys_pipe: two descriptors of one slot, which fd_pos counts.
sys_pipe(fds) == [fds EXCEPT ![3] = Slot, ![4] = Slot]

\* Enter on a pipeline: pipe, with its two descriptors, and stdout redirected.
ReadPipeline ==
    /\ Read
    /\ Contains(CmdLine, "|")
    /\ at' = "first" /\ then' = "first"
    /\ rest' = CmdLine /\ each_cmd' = 0
    /\ fd_table' = fd_redirect(sys_pipe(fd_table), 1, 4)
    /\ count' = 2 /\ bytes' = 0
    /\ Cleared
    /\ UNCHANGED <<argv, cwd, clear, child_fds, line, nr, erased>>

----------------------------------------------------------------------------
(* The commands of a line, one after the other.                             *)

\* The commands before the last one; stdin of all but the first is the pipe.
ParseNext ==
    /\ at \in {"first", "middle"} /\ Contains(rest, "|")
    /\ argv' = cmd_parse(Piece(rest))
    /\ rest' = Behind(rest)
    /\ each_cmd' = each_cmd + Len(Piece(rest)) + 1
    /\ nr' = nr + 1
    /\ at' = "execute"
    /\ then' = IF at = "first" THEN "second" ELSE "middle"
    /\ UNCHANGED <<inputVars, cwd, clear, pipeVars, line, erased>>

RedirectStdin ==
    /\ at = "second"
    /\ fd_table' = fd_redirect(fd_table, 0, 3)
    /\ at' = "middle"
    /\ UNCHANGED <<then, inputVars, rest, each_cmd, argv, cwd, clear, child_fds, count, bytes, line, nr, erased>>

RecoverStdout ==
    /\ at = "middle" /\ ~ Contains(rest, "|")
    /\ fd_table' = fd_redirect(fd_table, 1, 1)
    /\ at' = "last" /\ then' = "close"
    /\ UNCHANGED <<inputVars, rest, each_cmd, argv, cwd, clear, child_fds, count, bytes, line, nr, erased>>

ParseLast ==
    /\ at = "last"
    /\ argv' = cmd_parse(rest)
    /\ nr' = nr + 1
    /\ at' = "execute"
    /\ UNCHANGED <<then, inputVars, rest, each_cmd, cwd, clear, pipeVars, line, erased>>

----------------------------------------------------------------------------
(* cmd_execute.                                                             *)

\* No word at all: cmd2func follows a NULL pointer.  Too many: cmd_parse writes
\* behind the end of argv.  What the shell does from then on is left open.
ExecuteBad ==
    /\ at = "execute"
    /\ argv = <<>> \/ Len(argv) > MAX_ARG_NR
    /\ at' = "stopped"
    /\ UNCHANGED <<then, inputVars, rest, each_cmd, argv, cwd, clear, pipeVars, line, nr, erased>>

Execute(kind) ==
    /\ at = "execute"
    /\ Len(argv) \in 1..MAX_ARG_NR
    /\ LET func == cmd2func(argv[1])
       IN  kind = IF func = <<>> THEN "other" ELSE Kind[func]
    /\ UNCHANGED <<then, inputVars, each_cmd, argv, line, nr>>

NoPath == [cwd |-> <<"/">>, given |-> <<"/">>, to |-> <<"/">>]
Cleaned(path) == [cwd |-> cwd, given |-> path, to |-> make_clear_abs_path(path)]

\* A built-in command that looks at no path, or has too few or many arguments.
ExecutePlain ==
    /\ \E kind \in {"cd", "path", "plain"} :
          /\ Execute(kind)
          /\ kind = "cd" => Len(argv) > 2
          /\ kind = "path" => Len(argv) # 2
    /\ at' = "printing"
    /\ UNCHANGED <<cwd, rest, erased, clear, pipeVars>>

\* mkdir, rmdir, rm and ls of one path; the file system is not part of this module.
ExecutePath ==
    /\ Execute("path")
    /\ Len(argv) = 2
    /\ clear' = Cleaned(argv[2])
    /\ at' = "printing"
    /\ UNCHANGED <<cwd, rest, erased, pipeVars>>

\* What memset and strcpy leave of the string at each_cmd: they clear as much as
\* fits into cmd_line and write the whole path, from the start of cwd_cache on.
Overwritten(path) == From(path, cache_len + each_cmd + 1)

builtin_cd ==
    /\ Execute("cd")
    /\ Len(argv) <= 2
    /\ clear' = Cleaned(IF Len(argv) = 1 THEN <<"/">> ELSE argv[2])
    /\ cwd' = IF clear'.to \in Dirs THEN clear'.to ELSE cwd
    /\ IF clear'.to \in Dirs /\ cache_len + each_cmd < cmd_len
       THEN /\ rest' = Overwritten(clear'.to)
            /\ erased' = IF rest' = <<>> THEN "all" ELSE "path"
       ELSE UNCHANGED <<rest, erased>>
    /\ at' = "printing"
    /\ UNCHANGED pipeVars

\* How many descriptors fork and exit count for the pipe: not the first three.
Shared(fds) == Cardinality({fd \in Fd : fd >= 3 /\ fds[fd] = Slot})

\* fork: what the child inherits is counted.
Forked == count + Shared(fd_table)

\* Any other command: fork, and the child looks for the program.
ExecuteOther ==
    /\ Execute("other")
    /\ child_fds' = fd_table
    /\ count' = Forked
    /\ clear' = Cleaned(argv[1])
    /\ at' = "child"
    /\ UNCHANGED <<cwd, rest, erased, fd_table, bytes>>

\* sys_write to stdout, with pipe_write: it waits for room for the byte that
\* fills the ring, and nobody reads before the command is over.
sys_write(fds, n) ==
    IF fds[1] # Slot THEN UNCHANGED <<at, bytes>>
    ELSE LET size == IF PIPE_BUF_SIZE - bytes > n THEN n ELSE PIPE_BUF_SIZE - bytes
             fits == bytes + size < PIPE_BUF_SIZE
         IN  /\ bytes' = IF fits THEN bytes + size ELSE PIPE_BUF_SIZE - 1
             /\ at' = IF fits THEN at ELSE "blocked"

\* The child, or the program it has become, reads and writes while the shell waits.
ChildWrites(n) ==
    /\ at = "child"
    /\ sys_write(child_fds, n)
    /\ UNCHANGED <<then, inputVars, rest, each_cmd, argv, cwd, clear, fd_table, child_fds, count, line, nr, erased>>

\* pipe_read never waits.
ChildReads(n) ==
    /\ at = "child"
    /\ child_fds[0] = Slot
    /\ bytes' = IF bytes > n THEN bytes - n ELSE 0
    /\ UNCHANGED <<at, then, inputVars, rest, each_cmd, argv, cwd, clear, fd_table, child_fds, count, line, nr, erased>>

\* release_prog_resource; then the shell returns from wait.
ChildExits ==
    /\ at = "child"
    /\ count' = count - Shared(child_fds)
    /\ child_fds' = <<>>
    /\ at' = "printing"
    /\ UNCHANGED <<then, inputVars, rest, each_cmd, argv, cwd, clear, fd_table, bytes, line, nr, erased>>

\* What the shell itself prints goes where its stdout goes.
Prints(n) ==
    /\ at = "printing"
    /\ sys_write(fd_table, n)
    /\ UNCHANGED <<then, inputVars, rest, each_cmd, argv, cwd, clear, fd_table, child_fds, count, line, nr, erased>>

\* The next line: cmd_line and final_path are cleared, argv is not read again.
NextLine ==
    /\ line' = <<>> /\ nr' = 0 /\ erased' = "no"
    /\ rest' = <<>> /\ each_cmd' = 0 /\ argv' = <<>>
    /\ clear' = NoPath

CommandOver ==
    /\ at = "printing"
    /\ at' = then
    /\ IF then = "read" THEN NextLine ELSE UNCHANGED <<line, nr, erased, rest, each_cmd, argv, clear>>
    /\ UNCHANGED <<then, inputVars, cwd, pipeVars>>

\* sys_close of a descriptor of the pipe.  With the last one goes the queue:
\* mfree_page is given a block of the heap, which begins on no page, and asserts.
sys_close(fds, fd) ==
    /\ count' = count - 1
    /\ fd_table' = IF count' = 0 THEN fds ELSE [fds EXCEPT ![fd] = -1]

CloseRead ==
    /\ at = "close"
    /\ sys_close(fd_redirect(fd_table, 0, 0), 3)
    /\ at' = IF count' = 0 THEN "stopped" ELSE "closed"
    /\ UNCHANGED <<then, inputVars, rest, each_cmd, argv, cwd, clear, child_fds, bytes, line, nr, erased>>

CloseWrite ==
    /\ at = "closed"
    /\ sys_close(fd_table, 4)
    /\ at' = IF count' = 0 THEN "stopped" ELSE "read"
    /\ NextLine
    /\ UNCHANGED <<then, inputVars, cwd, child_fds, bytes>>

----------------------------------------------------------------------------
Init ==
    /\ at = "read" /\ then = "read"
    /\ buf = [i \in 0..(cmd_len - 1) |-> NUL] /\ pos = 0
    /\ rest = <<>> /\ each_cmd = 0 /\ argv = <<>>
    /\ cwd = <<"/">> /\ clear = NoPath
    /\ fd_table = [fd \in Fd |-> IF fd < 3 THEN fd ELSE -1]
    /\ child_fds = <<>>
    /\ count = 0 /\ bytes = 0
    /\ line = <<>> /\ nr = 0 /\ erased = "no"

Next ==
    \/ \E c \in Char : ReadChar(c)
    \/ ReadBackspace \/ ReadCtrlL \/ ReadCtrlU \/ ReadTooMuch
    \/ ReadNothing \/ ReadCommand \/ ReadPipeline
    \/ ParseNext \/ RedirectStdin \/ RecoverStdout \/ ParseLast
    \/ ExecuteBad \/ ExecutePlain \/ ExecutePath \/ builtin_cd \/ ExecuteOther
    \/ \E n \in Outputs : ChildWrites(n) \/ ChildReads(n) \/ Prints(n)
    \/ ChildExits \/ CommandOver \/ CloseRead \/ CloseWrite

ShellSpec == Init /\ [][Next]_shellVars

----------------------------------------------------------------------------
(* Properties.                                                              *)

\* The stretches of s without sep, in order: where they begin, and each of them.
Starts(s, sep) == {i \in 1..Len(s) : s[i] # sep /\ (i = 1 \/ s[i - 1] = sep)}
Stretch(s, sep, i) ==
    SubSeq(s, i, CHOOSE e \in i..Len(s) : /\ \A j \in i..e : s[j] # sep
                                          /\ e = Len(s) \/ s[e + 1] = sep)
Nth(S, k) == CHOOSE i \in S : Cardinality({j \in S : j <= i}) = k
Words(s, sep) ==
    [k \in 1..Cardinality(Starts(s, sep)) |-> Stretch(s, sep, Nth(Starts(s, sep), k))]

\* The n-th command of a line: the characters with n - 1 bars before them.
Bars(s, i) == Cardinality({j \in 1..i : s[j] = "|"})
Command(s, n) ==
    LET in == {i \in 1..Len(s) : s[i] # "|" /\ Bars(s, i) = n - 1}
    IN  IF in = {} THEN <<>> ELSE SubSeq(s, Min(in), Max(in))

\* What cmd_execute gets (shell.c:99) are the words of the command the user has
\* typed, whatever was typed, deleted, cleared or shown again before (the keys
\* stay in cmd_line behind its end), one command of the line after the other up
\* to the last, and only what cmds[] does not name is forked.  The exception is
\* the rest of a line behind a cd: clearing the 64 bytes of cwd_cache with 512
\* (builtin_cmd.c:93) also clears cmd_line, and the command that is executed next
\* then has no words at all, or those of a path too long for cwd_cache.
ExecutesWhatWasTyped ==
    /\ at = "execute" /\ erased = "no" =>
          /\ argv = Words(Command(line, nr), Blank)
          /\ nr <= Bars(line, Len(line)) + 1
          /\ then \in {"read", "close"} <=> nr = Bars(line, Len(line)) + 1
    /\ at = "execute" /\ erased = "all" => argv = <<>> /\ then = "close"
    /\ at = "child" => \A i \in 1..Len(cmds) : cmds[i] # argv[1]

\* Where the names of a path lead.
Resolved(path) ==
    LET names == Words(path, "/")
        up[k \in 0..Len(names)] ==
            IF k = 0 THEN <<>>
            ELSE CASE names[k] = <<".", ".">> -> IF up[k - 1] = <<>> THEN <<>> ELSE Front(up[k - 1])
                   [] names[k] = <<".">>      -> up[k - 1]
                   [] OTHER                   -> Append(up[k - 1], names[k])
    IN  up[Len(names)]

\* make_clear_abs_path (builtin_cmd.c:45) leads where the path given leads from
\* the working directory, and is written with nothing but names: no "." or "..",
\* no doubled slash and none at the end but the one of the root.
PathClear ==
    LET goal == Resolved(IF clear.given[1] = "/" THEN clear.given
                         ELSE clear.cwd \o <<"/">> \o clear.given)
        to == clear.to
    IN  /\ Words(to, "/") = goal
        /\ \A k \in 1..Len(goal) : goal[k] \notin {<<".">>, <<".", ".">>}
        /\ to # <<>> /\ to[1] = "/"
        /\ \A i \in 1..(Len(to) - 1) : to[i] = "/" => to[i + 1] # "/"
        /\ to[Len(to)] = "/" => Len(to) = 1

\* As long as the kernel runs, fd_pos of the pipe's slot is the number of
\* descriptors on it, through fork (fork.c:97), exit (wait_exit.c:53) and close
\* (fs.c:360), although stdin and stdout are redirected to it without being
\* counted: so the queue is there for every command of the line.
PipeCounted ==
    at # "stopped" =>
        /\ count = Shared(fd_table) + (IF child_fds = <<>> THEN 0 ELSE Shared(child_fds))
        /\ \A fd \in 0..1 : fd_table[fd] = Slot => count > 0
=============================================================================
