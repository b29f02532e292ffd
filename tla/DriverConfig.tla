---------------------------- MODULE DriverConfig ----------------------------
(***************************************************************************)
(* The configuration file of the drivers, biometric-config-tool            *)
(* (src/src/utils/biometric-config-tool), which edits it, and              *)
(* bio_driver_list_init (src/src/lib/biometric_common.c), which loads the  *)
(* drivers it names.                                                       *)
(*                                                                         *)
(* Every command of the tool is a process that loads the whole file, edits  *)
(* its copy and saves the whole copy under the name of the file.  Nothing   *)
(* keeps two commands apart.  Installations run many of them, and the       *)
(* discovery script and the administrator may do so at any time.            *)
(***************************************************************************)
EXTENDS Integers, Sequences, FiniteSets, SequencesExt

CONSTANTS
  Names,        \* names of sections
  Plugins,      \* paths of driver files
  Info,         \* what bio_driver_list_init finds out about each plugin
  Framework,    \* the DRV_API version of the framework: major, minor, function
  IdStart,      \* BIO_DRVID_DYNAMIC_START, the first ID there is to give
  IdMax,        \* BIO_DRVID_DYNAMIC_MAX, the last
  None, Empty,  \* no key, and a key without a value
  FirstFiles,   \* the files the system may be found with
  MaxRuns,      \* bound: runs of biometric-config-tool
  Commands      \* what they may be asked to do

Tools == 1 .. MaxRuns   \* in the order they are started

Fields == {"enable", "driver", "other"}
Values == {None, Empty, "true", "false", "value"} \cup Plugins

Section == [name : Names, enable : Values, driver : Values, other : Values]

(* Group names are unique in a GKeyFile. *)
IsSections(s) ==
  s \in Seq(Section) /\ \A i, j \in DOMAIN s : s[i].name = s[j].name => i = j

States == {"good", "broken", "absent"}

(* What the arguments of a command name; a value may be the empty string. *)
IsCommand(c) ==
  \/ c.does = "add" /\ c.name \in Names /\ c.driver \in Values \ {None}
  \/ c.does = "remove" /\ c.names \subseteq Names
  \/ c.does = "switch" /\ c.names \subseteq Names /\ c.to \in {"true", "false"}
  \/ c.does = "set" /\ c.name \in Names /\ c.field \in Fields /\ c.value \in Values \ {None}
  \/ c.does = "unset" /\ c.name \in Names /\ c.field \in Fields

ASSUME ConfigAssumption ==
  /\ \A c \in Commands : IsCommand(c)
  /\ \A f \in FirstFiles : /\ f.state \in States /\ IsSections(f.sections)
                           /\ f.state = "absent" => f.sections = <<>>
  /\ \A p \in Plugins : /\ Info[p].opens \in BOOLEAN /\ Info[p].configures \in BOOLEAN
                        /\ Info[p].starts \in BOOLEAN
                        /\ Info[p].version \in Seq(Nat) /\ Len(Info[p].version) = 3
  /\ MaxRuns \in Nat /\ None # Empty
  /\ IdStart \in Nat /\ IdMax \in Nat /\ IdStart <= IdMax

VARIABLES
  file,    \* /etc/biometric-auth/biometric-drivers.conf
  tool,    \* what each run of the tool is doing
  named,   \* history: the sections named by a command
  misread, \* history: a command has worked on what it could read of a broken file
  unkeyed  \* history: a section without a driver was there or was asked for

configVars == <<file, tool, named, misread, unkeyed>>

-----------------------------------------------------------------------------
(* Sections.                                                                *)

NamesOf(s)      == { x.name : x \in Range(s) }
SectionOf(s, n) == { x \in Range(s) : x.name = n }
HasDriver(section) == section.driver \notin {None, Empty}

Blank(n) == [name |-> n, enable |-> None, driver |-> None, other |-> None]

ConfigInit ==
  /\ file \in FirstFiles
  /\ tool = [t \in Tools |-> [at |-> "idle"]]
  /\ named = {} /\ misread = FALSE
  /\ unkeyed = \E x \in Range(file.sections) : ~ HasDriver(x)

-----------------------------------------------------------------------------
(* The commands, on a copy of the sections.                                 *)

Targets(c) == IF c.does \in {"remove", "switch"} THEN c.names ELSE {c.name}
KeyOf(s, c) == { x[c.field] : x \in SectionOf(s, c.name) } \ {None}

(* add-driver, remove-driver, enable-driver and disable-driver (a switch), set-key
   and remove-key (unset).  The checks before anything is changed; a command that
   does not pass them ends with exit(1).  remove-driver, enable-driver,
   disable-driver and remove-key look for a missing section unless told to
   ignore it. *)
Accepts(s, c) ==
  CASE c.does = "add" -> c.name \notin NamesOf(s) \/ c.force
    [] c.does = "set" -> /\ c.name \in NamesOf(s)
                         /\ KeyOf(s, c) # {} => c.force \/ c.ignore
    [] OTHER          -> Targets(c) \subseteq NamesOf(s) \/ c.ignore

(* set-key -i leaves a key that is there alone, and does not save. *)
NothingToDo(s, c) == c.does = "set" /\ c.ignore /\ KeyOf(s, c) # {}

(* A section the command has named, afterwards. *)
Edited(x, c) ==
  CASE c.does = "add"    -> [x EXCEPT !.enable = IF c.disable THEN "false" ELSE "true",
                                      !.driver = c.driver]
    [] c.does = "switch" -> [x EXCEPT !.enable = c.to]
    [] c.does = "set"    -> [x EXCEPT ![c.field] = c.value]
    [] c.does = "unset"  -> [x EXCEPT ![c.field] = None]

(* Mutant of Outcome: add-driver --force puts a second section of the name. *)
OutcomeTwice(s, c) ==
  LET all == IF c.does = "add" THEN Append(s, Blank(c.name)) ELSE s
  IN [i \in DOMAIN all |-> IF all[i].name \in Targets(c) /\ c.does # "remove"
                           THEN Edited(all[i], c) ELSE all[i]]

Outcome(s, c) ==
  IF c.does = "remove"
  THEN FoldLeft(LAMBDA kept, x : IF x.name \in c.names THEN kept ELSE Append(kept, x), <<>>, s)
  ELSE LET all == IF c.does = "add" /\ c.name \notin NamesOf(s)
                  THEN Append(s, Blank(c.name)) ELSE s
       IN [i \in DOMAIN all |-> IF all[i].name \in Targets(c) THEN Edited(all[i], c) ELSE all[i]]

(* A command that takes the driver away from its section. *)
Unkeys(c) ==
  \/ c.does = "add" /\ c.driver = Empty
  \/ c.does = "set" /\ c.field = "driver" /\ c.value = Empty
  \/ c.does = "unset" /\ c.field = "driver"

(* g_key_file_load_from_file keeps what it has read when it comes to a line it
   does not understand: some sections, and of the last of them some keys. *)
CutShort(x) ==
  { [x EXCEPT !.enable = e, !.driver = d, !.other = o] :
      e \in {None, x.enable}, d \in {None, x.driver}, o \in {None, x.other} }

Readable(f) ==
  IF f.state # "broken" THEN {f.sections}
  ELSE {<<>>} \cup UNION { { Append(SubSeq(f.sections, 1, k - 1), x) :
                               x \in CutShort(f.sections[k]) }
                           : k \in DOMAIN f.sections }

-----------------------------------------------------------------------------
(* The tool.                                                                *)

(* config_init: main does not look at its answer, so a file that cannot be
   parsed is taken for what was read of it, and a missing one for empty. *)
ToolLoad(t) ==
  /\ tool[t].at = "idle" /\ \A u \in 1 .. t - 1 : tool[u].at # "idle"
  /\ \E c \in Commands, copy \in Readable(file) :
       /\ tool' = [tool EXCEPT ![t] = [at |-> "loaded", does |-> c, copy |-> copy]]
       /\ named' = named \cup Targets(c)
       /\ unkeyed' = (unkeyed \/ Unkeys(c))
  /\ misread' = (misread \/ file.state = "broken")
  /\ UNCHANGED file

Ends(t) == tool' = [tool EXCEPT ![t] = [at |-> "over"]]

(* Mutant of ToolSave: what came last is left as it was in the file. *)
ToolSaveTail(t) ==
  /\ tool[t].at = "loaded"
  /\ Accepts(tool[t].copy, tool[t].does) /\ ~ NothingToDo(tool[t].copy, tool[t].does)
  /\ LET out == Outcome(tool[t].copy, tool[t].does)
     IN file' = [state |-> "good", sections |-> SubSeq(out, 1, Len(out) - 1)]
  /\ Ends(t)
  /\ UNCHANGED <<named, misread, unkeyed>>

(* Mutant of ToolSave: the section is looked for in the copy, and the key is
   then put into the file as it is now. *)
ToolSaveKey(t) ==
  /\ tool[t].at = "loaded"
  /\ LET c   == tool[t].does
         now == file.sections
     IN /\ Accepts(tool[t].copy, c) /\ ~ NothingToDo(tool[t].copy, c)
        /\ file' = [state |-> "good",
                    sections |-> Outcome(IF c.does = "set" /\ c.name \notin NamesOf(now)
                                         THEN Append(now, Blank(c.name)) ELSE now, c)]
  /\ Ends(t)
  /\ UNCHANGED <<named, misread, unkeyed>>

(* g_key_file_save_to_file replaces the file in one step. *)
ToolSave(t) ==
  /\ tool[t].at = "loaded"
  /\ Accepts(tool[t].copy, tool[t].does) /\ ~ NothingToDo(tool[t].copy, tool[t].does)
  /\ file' = [state |-> "good", sections |-> Outcome(tool[t].copy, tool[t].does)]
  /\ Ends(t)
  /\ UNCHANGED <<named, misread, unkeyed>>

(* A check fails, there is nothing to do, the file cannot be written, or the
   tool is interrupted. *)
ToolEndsUnsaved(t) ==
  /\ tool[t].at = "loaded" /\ Ends(t)
  /\ UNCHANGED <<file, named, misread, unkeyed>>

ConfigNext == \E t \in Tools : ToolLoad(t) \/ ToolSave(t) \/ ToolEndsUnsaved(t)

-----------------------------------------------------------------------------
(* bio_driver_list_init.                                                    *)

(* bio_check_drv_api_version: 0 is compatible, positive too new, negative too
   old.  Of the third number a driver may ask for less than there is. *)
CheckDrvApiVersion(v) ==
  CASE v[1] # Framework[1] -> IF v[1] > Framework[1] THEN 3 ELSE -3
    [] v[1] = Framework[1] /\ v[2] # Framework[2] -> IF v[2] > Framework[2] THEN 2 ELSE -2
    [] OTHER -> IF v[3] > Framework[3] THEN 1 ELSE 0

(* dlopen, ops_configure, the version, ops_driver_init: a plugin that fails one
   of them is passed over. *)
Loads(p) ==
  /\ p \in Plugins
  /\ Info[p].opens /\ Info[p].configures /\ Info[p].starts
  /\ CheckDrvApiVersion(Info[p].version) = 0

(* bio_dev_is_enable looks for the section with the name the driver gives its
   device; without a value it can read a driver is not enabled. *)
IsEnable(s, p) == \E x \in SectionOf(s, Info[p].device) : x.enable = "true"

IdsOf(list) == { list[i].id : i \in DOMAIN list }

(* Mutant of EmptyDriverId: the last driver is not marked. *)
EmptyDriverIdLast(list, past) == IdStart + (IF list = <<>> THEN 0 ELSE Len(list) - 1)

(* bio_get_empty_driver_id: the first ID no driver of the list has.  When all are
   given out the function looks at the byte behind its array: whether that is
   1, and the answer -1, depends on what is there (past), unless a driver has
   the ID of that byte and has just written it. *)
EmptyDriverId(list, past) ==
  LET Free == (IdStart .. IdMax) \ IdsOf(list)
  IN CASE Free # {} -> Min(Free)
       [] Free = {} /\ (past \/ IdMax + 1 \in IdsOf(list)) -> -1
       [] OTHER -> IdMax + 1

LoadOne(s, list, section, past) ==
  IF Loads(section.driver)
  THEN Append(list, [plugin  |-> section.driver,
                     id      |-> EmptyDriverId(list, section.name \in past),
                     enabled |-> IsEnable(s, section.driver)])
  ELSE list

(* A section without a driver makes bio_driver_list_init free what it has
   loaded and return no list. *)
DriverListInit(s, past) ==
  IF \E x \in Range(s) : ~ HasDriver(x) THEN <<>>
  ELSE FoldLeft(LAMBDA list, x : LoadOne(s, list, x, past), <<>>, s)
=============================================================================
