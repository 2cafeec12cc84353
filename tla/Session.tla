------------------------------ MODULE Session -------------------------------
(***************************************************************************)
(* A session from the login screen to power-off: auth/, boot/menu.rs, the  *)
(* session loop of main.rs, usermode/launcher.rs, the commands of the Ring *)
(* 3 shell (userland/main.rs) with the system calls they make              *)
(* (usermode/syscall.rs), and the commands of the kernel shell             *)
(* (shell/commands.rs) that change something.  A command line is a         *)
(* sequence of words; a file's contents are words too.  The file system is *)
(* what its interface promises (PsychicFS models its inside): a disk       *)
(* write may fail, and a failed call may leave a file changed.  Commands   *)
(* that only print, and the serial log, are left out.                      *)
(***************************************************************************)
EXTENDS Naturals, Sequences, FiniteSets

CONSTANTS
    Accounts,             \* UserDatabase: records [username, password, uid]
    Usernames, Passwords, \* what may be typed
    Hash,                 \* hash_password, a function on Passwords
    MAX_ATTEMPTS,
    Words, MaxArgs,       \* words of a command line, and how many follow the command
    MAX_FILENAME_LEN, MAX_FILES,
    CatBuf,               \* cmd_cat's buffer
    WordSize,             \* a u64 is a number below this ...
    ErrBase,              \* ... and 0xFFFF_FFFF_0000_0000 is this number
    Absent, Garbled, Nobody

VARIABLES
    at,                   \* who has the screen and the keyboard
    attempts, user,       \* show_login's counter; CURRENT_SESSION
    files, formatted, mounted,
    cmd, msg, shown       \* the last command, its message, the text it printed

vars == <<at, attempts, user, files, formatted, mounted, cmd, msg, shown>>
fsvars == <<files, formatted, mounted>>
session == <<at, attempts, user>>

Lines(n) == UNION {[1..k -> Words] : k \in 0..n}
FileNames == Lines(MaxArgs) \ {<<>>}
Silent == cmd' = <<>> /\ msg' = "" /\ shown' = <<>>

Boot ==
    /\ at = "login" /\ attempts = 0 /\ user = Nobody /\ mounted = FALSE
    /\ cmd = <<>> /\ msg = "" /\ shown = <<>>

Init == Boot /\ formatted = FALSE /\ files = [n \in FileNames |-> Absent]
-----------------------------------------------------------------------------
(* Login and the menu                                                      *)

authenticate(name, password) ==
    {a \in Accounts : a.username = name /\ Hash[a.password] = Hash[password]}

\* one attempt too many
LoginForgiving(name, password) ==
    /\ at = "login"
    /\ IF authenticate(name, password) # {}
         THEN at' = "menu" /\ user' \in authenticate(name, password) /\ UNCHANGED attempts
         ELSE /\ attempts' = attempts + 1
              /\ at' = IF attempts' > MAX_ATTEMPTS THEN "locked" ELSE "login"
              /\ UNCHANGED user
    /\ Silent /\ UNCHANGED fsvars

Login(name, password) ==
    /\ at = "login"
    /\ IF authenticate(name, password) # {}
         THEN at' = "menu" /\ user' \in authenticate(name, password) /\ UNCHANGED attempts
         ELSE /\ attempts' = attempts + 1
              /\ at' = IF attempts' >= MAX_ATTEMPTS THEN "locked" ELSE "login"
              /\ UNCHANGED user
    /\ Silent /\ UNCHANGED fsvars

is_root == user # Nobody /\ user.uid = 0

\* the kernel shell is offered to everybody
show_menu_open(option) ==
    /\ at = "menu"
    /\ at' = option
    /\ Silent /\ UNCHANGED <<fsvars, attempts, user>>

\* keys '1', '2' and '3'; '3' needs root
show_menu(option) ==
    /\ at = "menu"
    /\ option = "kshell" => is_root
    /\ at' = option
    /\ Silent /\ UNCHANGED <<fsvars, attempts, user>>

\* 'q' in the GUI returns to what started it
GuiQuit ==
    /\ at \in {"gui", "kernel gui"}
    /\ at' = IF at = "gui" THEN "menu" ELSE "kshell"
    /\ Silent /\ UNCHANGED <<fsvars, attempts, user>>
-----------------------------------------------------------------------------
(* The file system's interface                                             *)

Used == {n \in FileNames : files[n] # Absent}
CanCreate(name) == Len(name) < MAX_FILENAME_LEN /\ files[name] = Absent /\ Cardinality(Used) < MAX_FILES

fs_create(name, ok) ==
    /\ ok => CanCreate(name)
    /\ files' = IF ok THEN [files EXCEPT ![name] = <<>>] ELSE files
    /\ UNCHANGED <<formatted, mounted>>

\* blocks come from the mounted bitmap; a failure may come before or after the
\* file is created, and after some of its blocks are overwritten
fs_write(name, data, ok) ==
    /\ ok => mounted /\ (files[name] # Absent \/ CanCreate(name))
    /\ \/ ok /\ files' = [files EXCEPT ![name] = data]
       \/ ~ok /\ UNCHANGED files
       \/ ~ok /\ CanCreate(name) /\ files' = [files EXCEPT ![name] = <<>>]
       \/ ~ok /\ mounted /\ files[name] \notin {Absent, <<>>} /\ files' = [files EXCEPT ![name] = Garbled]
    /\ UNCHANGED <<formatted, mounted>>

fs_delete(name, ok) ==
    /\ ok => files[name] # Absent
    /\ files' = IF ok THEN [files EXCEPT ![name] = Absent] ELSE files
    /\ UNCHANGED <<formatted, mounted>>

\* the superblock is written first, then the inode sectors in order
fs_format(ok) ==
    \/ /\ formatted' = TRUE
       /\ \E lost \in SUBSET Used :
             /\ ok => lost = Used
             /\ files' = [n \in FileNames |-> IF n \in lost THEN Absent ELSE files[n]]
       /\ UNCHANGED mounted
    \/ ~ok /\ UNCHANGED fsvars

fs_mount(ok) ==
    /\ ok = formatted
    /\ mounted' = (ok \/ mounted)
    /\ UNCHANGED <<files, formatted>>
-----------------------------------------------------------------------------
(* System calls: a result is a u64, an error its negated number            *)

PermissionDenied == 3
NotFound == 4
IoError == 8

\* the error number is returned as it is
as_errno_positive(e) == e

as_errno(e) == WordSize - e

sys_fs_create(name, r) ==
    \E ok \in BOOLEAN : fs_create(name, ok) /\ r = IF ok THEN 0 ELSE as_errno(IoError)

sys_fs_write_file(name, data, r) ==
    \E ok \in BOOLEAN : fs_write(name, data, ok) /\ r = IF ok THEN Len(data) ELSE as_errno(IoError)

sys_fs_delete(name, r) ==
    \E ok \in BOOLEAN : fs_delete(name, ok) /\ r = IF ok THEN 0 ELSE as_errno(NotFound)

\* the result, and what is copied to the buffer
sys_fs_read_file(name) ==
    IF files[name] = Absent THEN [r |-> as_errno(NotFound), buf |-> <<>>]
    ELSE IF files[name] = Garbled THEN [r |-> 1, buf |-> <<Garbled>>]
    ELSE LET n == IF Len(files[name]) < CatBuf THEN Len(files[name]) ELSE CatBuf
         IN  [r |-> n, buf |-> SubSeq(files[name], 1, n)]

\* Process::new gives every process uid 0, and nothing changes it
sys_getuid == 0

sys_fs_format(r) ==
    IF sys_getuid # 0 THEN r = as_errno(PermissionDenied) /\ UNCHANGED fsvars
    ELSE \E ok \in BOOLEAN : fs_format(ok) /\ r = IF ok THEN 0 ELSE as_errno(IoError)

sys_fs_mount(r) ==
    \E ok \in BOOLEAN : fs_mount(ok) /\ r = IF ok THEN 0 ELSE as_errno(IoError)
-----------------------------------------------------------------------------
(* The Ring 3 shell: a name is all the text after the command              *)

Codes == (0..MaxArgs) \cup {as_errno(PermissionDenied), as_errno(NotFound), as_errno(IoError)}
Answer(r, text) == r \in Codes /\ msg' = text /\ shown' = <<>>

cmd_touch(args) ==
    \E r \in Codes : sys_fs_create(args, r) /\ Answer(r, IF r = 0 THEN "Created" ELSE "Failed to create file")

cmd_cat(args) ==
    LET res == sys_fs_read_file(args)
    IN  /\ UNCHANGED fsvars
        /\ IF res.r >= ErrBase THEN msg' = "File not found" /\ shown' = <<>>
           ELSE IF res.r > 0 THEN msg' = "text" /\ shown' = res.buf
           ELSE msg' = "(empty file)" /\ shown' = <<>>

cmd_write(args) ==
    IF Len(args) < 2 THEN UNCHANGED fsvars /\ msg' = "Usage" /\ shown' = <<>>
    ELSE \E r \in Codes :
           /\ sys_fs_write_file(<<Head(args)>>, Tail(args), r)
           /\ Answer(r, IF r > 0 /\ r < ErrBase THEN "Written successfully" ELSE "Write failed")

cmd_rm(args) ==
    \E r \in Codes : sys_fs_delete(args, r) /\ Answer(r, IF r = 0 THEN "Deleted" ELSE "File not found")

cmd_format ==
    \E r \in Codes :
        /\ sys_fs_format(r)
        /\ Answer(r, IF r = 0 THEN "Format complete!"
                     ELSE IF r = as_errno(PermissionDenied) THEN "Permission denied" ELSE "Format failed")

cmd_mount ==
    \E r \in Codes :
        sys_fs_mount(r) /\ Answer(r, IF r = 0 THEN "Filesystem mounted!" ELSE "Mount failed")

\* process_command: the commands that take a file
UserCommand(verb, args) ==
    /\ at = "ushell"
    /\ cmd' = <<verb>> \o args
    /\ CASE verb = "touch" /\ args # <<>> -> cmd_touch(args)
         [] verb = "cat" /\ args # <<>> -> cmd_cat(args)
         [] verb = "write" -> cmd_write(args)
         [] verb = "rm" /\ args # <<>> -> cmd_rm(args)
         [] verb = "format" -> cmd_format
         [] verb = "mount" -> cmd_mount
         [] OTHER -> UNCHANGED fsvars /\ msg' = "Unknown command" /\ shown' = <<>>
    /\ UNCHANGED session

\* sys_exit marks the process a zombie and yields; launch_user_shell does not return
UserExit ==
    /\ at = "ushell"
    /\ at' = "exited"
    /\ Silent /\ UNCHANGED <<fsvars, attempts, user>>
-----------------------------------------------------------------------------
(* The kernel shell: a name is the first word after the command            *)

KernelCall(ok, good, bad) == msg' = (IF ok THEN good ELSE bad) /\ shown' = <<>>

KernelTouch(name) ==
    \E ok \in BOOLEAN : fs_create(name, ok) /\ KernelCall(ok, "Created", "Create failed")

KernelCat(name) ==
    /\ UNCHANGED fsvars
    /\ IF files[name] = Absent THEN msg' = "File not found" /\ shown' = <<>>
       ELSE msg' = "text" /\ shown' = IF files[name] = Garbled THEN <<Garbled>> ELSE files[name]

KernelWrite(name, data) ==
    \E ok \in BOOLEAN : fs_write(name, data, ok) /\ KernelCall(ok, "Written successfully", "Write failed")

KernelRm(name) ==
    \E ok \in BOOLEAN : fs_delete(name, ok) /\ KernelCall(ok, "Deleted", "Delete failed")

\* the answer to the question is 'y', or anything else
KernelFormat ==
    \/ \E ok \in BOOLEAN : fs_format(ok) /\ KernelCall(ok, "Format complete!", "Format failed!")
    \/ UNCHANGED fsvars /\ msg' = "Cancelled." /\ shown' = <<>>

KernelMount ==
    \E ok \in BOOLEAN : fs_mount(ok) /\ KernelCall(ok, "Filesystem mounted!", "Mount failed")

\* execute: the commands that use the file system
KernelCommand(verb, args) ==
    /\ at = "kshell"
    /\ cmd' = <<verb>> \o args
    /\ CASE verb = "touch" /\ args # <<>> -> KernelTouch(<<Head(args)>>)
         [] verb = "cat" /\ args # <<>> -> KernelCat(<<Head(args)>>)
         [] verb = "write" /\ Len(args) >= 2 -> KernelWrite(<<Head(args)>>, Tail(args))
         [] verb = "rm" /\ args # <<>> -> KernelRm(<<Head(args)>>)
         [] verb = "format" -> KernelFormat
         [] verb = "mount" -> KernelMount
         [] OTHER -> UNCHANGED fsvars /\ msg' = "Usage" /\ shown' = <<>>
    /\ UNCHANGED session

\* ring3_shell, gui
KernelLaunch ==
    /\ at = "kshell"
    /\ at' \in {"ushell", "kernel gui"}
    /\ Silent /\ UNCHANGED <<fsvars, attempts, user>>

\* shutdown, or the kernel shell's halt
PowerOff ==
    /\ at \in {"ushell", "kshell"}
    /\ at = "ushell" => sys_getuid = 0
    /\ at' = "off"
    /\ Silent /\ UNCHANGED <<fsvars, attempts, user>>

\* reboot: only the disk remains
Reboot ==
    /\ at \in {"ushell", "kshell"}
    /\ at = "ushell" => sys_getuid = 0
    /\ at' = "login" /\ attempts' = 0 /\ user' = Nobody /\ mounted' = FALSE
    /\ Silent /\ UNCHANGED <<files, formatted>>
-----------------------------------------------------------------------------
Verbs == {"touch", "cat", "write", "rm", "format", "mount", "other"}

Next ==
    \/ \E name \in Usernames, password \in Passwords : Login(name, password)
    \/ \E option \in {"ushell", "gui", "kshell"} : show_menu(option)
    \/ \E verb \in Verbs, args \in Lines(MaxArgs) :
          /\ verb \in {"format", "mount", "other"} => args = <<>>  \* they read no words
          /\ UserCommand(verb, args) \/ KernelCommand(verb, args)
    \/ GuiQuit \/ UserExit \/ KernelLaunch \/ PowerOff \/ Reboot

Spec == Init /\ [][Next]_vars
-----------------------------------------------------------------------------
\* Types of the accounts, the session and the files.
TypeOK ==
    /\ at \in {"login", "locked", "menu", "ushell", "kshell", "gui", "kernel gui", "exited", "off"}
    /\ attempts \in 0..MAX_ATTEMPTS /\ user \in Accounts \cup {Nobody}
    /\ files \in [FileNames -> Lines(MaxArgs) \cup {Absent, Garbled}]
    /\ {formatted, mounted} \subseteq BOOLEAN

\* Nobody gets past the login screen without an account whose name and
\* password were given, the screen locks at the MAX_ATTEMPTS-th wrong pair and
\* not before, and only root gets to the kernel shell, across reboots.
SessionSound ==
    /\ at \notin {"login", "locked"} => user \in Accounts
    /\ (at = "locked") = (attempts = MAX_ATTEMPTS)
    /\ at \in {"kshell", "kernel gui"} => user.uid = 0
    /\ mounted => formatted

NameOf(line) == IF line[1] = "write" \/ at = "kshell" THEN <<line[2]>> ELSE Tail(line)

\* A shell reports success only when the file system did what was asked, and
\* prints only what the file holds, through the number the system call returns
\* and whichever of the two shells wrote the file.
SuccessIsReal ==
    /\ msg' = "Created" => files[NameOf(cmd')] = Absent /\ files'[NameOf(cmd')] = <<>>
    /\ msg' = "Deleted" => files[NameOf(cmd')] # Absent /\ files'[NameOf(cmd')] = Absent
    /\ msg' = "Written successfully" => files'[NameOf(cmd')] = Tail(Tail(cmd'))
    /\ msg' = "Format complete!" => formatted' /\ \A n \in FileNames : files'[n] = Absent
    /\ msg' = "Filesystem mounted!" => formatted /\ mounted'
    /\ msg' = "text" =>
          LET held == files[NameOf(cmd')]
          IN  IF held = Garbled THEN shown' = <<Garbled>>
              ELSE held # Absent /\ shown' = SubSeq(held, 1, Len(shown'))
=============================================================================
