# A TLA+ verification of snipl and sncap

`snipl` (simple network IPL) controls LPARs of an IBM mainframe through its Support Element (SE)
and z/VM guests through a SMAPI request server or a VSMSERVE service machine.  `lic_vps` is the same
code as a STONITH plugin of a cluster manager, and `sncap` changes the temporary capacity of a CPC.
The modules here model the control of these programs as the C source has it; TLC checks them on
small instances, and TLAPS proves the most important results for every instance.

All paths `src/...` are relative to the repository; `sniplapi.c:787` means a line of `src/sniplapi.c`.

| Section | |
|---|---|
| [Inventory](#inventory) | the parts of the system, what they keep, what is hard about them |
| [Modules](#modules) | which module models what, and how its state and actions correspond to the code |
| [Runs](#runs) | what TLC checks, with which bounds, and what it shows |
| [Fairness](#fairness) | what the liveness properties assume, and why the code justifies it |
| [Proofs](#proofs) | what TLAPS proves, from which assumptions, along which argument |
| [Divergences](#divergences) | where the code does not do what its documents, comments or messages say |
| [Plan](#plan) | what the project could take on next |
| [Limits](#limits) | what is only model-checked and what is not modelled |

## Inventory

### The parts and how they interact

```
   command line, configuration file                cluster manager (requests, again and again)
                |                                                |
        snipl.c  main, parse_command_input,                lic_vps.c  STONITH plugin
        configfile_handling, command_processing                  |
                |        \                               /       |
                |         snconfig.c (servers, images, parameters)
                |                                                |
                +------------------- prepare.c ------------------+
                         dlopen of one library per server type
              +----------------+----------------+
        sniplapi.c  LPAR   vmsmapi6.c  VM    vmsmapi.c  VM5
              |                |                |
        hwmcaapi (SNMP)   TCP or SSL         Sun RPC
              |                |                |
        Support Element   SMAPI request server  VSMSERVE

   sncap.c main -> sncapjob.c (+ sncapconf.c) -> sncapapi.c -> hwmcaapi -> Support Element
                                    sncapdsm.c, sncaptcr.c (record documents), sncapcpc.c, sncaputil.c
```

`struct snipl_server` (`snipl.h:228`) is what the callers and the libraries share: the type, the
parameters, the list of images, `problem` and `problem_class`, `ops` (the functions of the loaded
library) and `priv` (the library's connection).  The inline functions of `snipl.h:158-310` call
through `ops`.  Nothing is persisted: snipl, sncap and the dialog begin anew in every process; only
the plugin keeps its server objects from one request to the next.  Concurrency comes from outside:
several processes and other applications use one SE, whose events reach all of them; the dialog
forks; the request server and the network have their own pace.

### Components

**STONITH plugin** (`lic_vps.c`).  *State:* the configuration with its server objects, for the life
of the plugin.  *Operations:* `set_config`, `hostlist`, `status`, `reset_req`, `getinfo`,
`get_confignames`, `new`, `destroy`.  *Interactions:* loads a library per attempt, logs in, operates,
logs out; uses the next server that defines the image when one fails; turns a VM server into a VM5
server when its login fails.  *Hard:* errors at every step, leftovers of one request in the next, one
message pointer with three owners.  *Correct when:* S_OK means the request was carried out or is
needless, S_OOPS means no server could, no image is reset again by another server once one has said
that it has reset it, what is lost is bounded, the status request tells the truth.

**LPAR commands** (`sniplapi.c`, `command_handling`, `parse_command_response`).  *State:* the command
session and the correlator of the command under way.  *Operations:* send a correlated command, wait
for events, decide whether an event is the response.  *Interactions:* the SE broadcasts every
command response to every session; a response is found by object, correlator, length, type and
command.  *Hard:* late, foreign, partial and lost events, equal correlators, a wait without limit.
*Correct when:* an acknowledgement belongs to the command under way and the SE carried it out, no
foreign event ends a wait, every wait ends if the SE answers.

**LPAR dialog** (`sniplapi.c`, `snipl_image_dialog`, `poll_opsys_messages`).  *State:* two processes
with a copy each of the handle of the session for messages; the event buffer.  *Operations:* fork,
poll, parse a buffer, reconnect, read and send commands, kill, logout.  *Hard:* the child is killed
at any point; a reconnect is known to one process only; a hung-up terminal.  *Correct when:* the
LPAR's messages are printed once and in order, none of another LPAR, the dialog ends and leaves
neither a process nor a session behind.

**Input line of the dialog** (`sniplapi.c:1752-1965`, `handle_del`, `handle_esc`).  *State:* a buffer,
the cursor, the number of columns in use.  *Operations:* one per key.  *Correct when:* the command
sent is what the line showed.

**LPAR sessions and operations** (`sniplapi.c`).  *State:* two sessions, the object id of every image.
*Operations:* parameter check, login, activate, deactivate, reset, load, scsiload, scsidump, status,
list, logout.  *Hard:* the check of which parameters go with which operation; ids left over from an
earlier login.

**z/VM socket interface** (`vmsmapi6.c`).  *State:* socket, SSL, the bytes under way.  *Operations:*
login with a comparison of fingerprints, one request and its two-part response, logout.  *Hard:*
partial reads, timeouts, a refused connection, responses that come late.  *Correct when:* the
outcome of an operation is that operation's.

**z/VM RPC interface** (`vmsmapi.c`).  *State:* the RPC client, the session token that every answer
renews.  *Operations:* activate, deactivate, reset, status, login, logout.  *Hard:* every branch of every
operation has to keep the token, and a call without an answer leaves an old one.  *Correct when:* no
failure that was answered spoils the request for the next image.

**snipl command processing** (`snipl.c`).  *State:* the server, the loop over the images, `ret`.
*Operations:* options, configuration, prepare, check, login with fallback, one operation per image,
logout.  *Correct when:* every image is tried and the exit code tells whether the command succeeded.

**snipl configuration** (`snconfig.c`).  *State:* lists of servers and images with parameters.
*Operations:* read, parse line by line, check that systems are unique, look up by image or address,
check parameters, free.  *Hard:* a parser with a remembered current server, a uniqueness check that
stops early, merged sources of parameters.

**Module loading and messages** (`prepare.c`, `snipl.h`).  *State:* the handle of the loaded library,
`server->ops`, `server->problem`.  *Hard:* pointers into a library that has been unloaded.

**sncap record changes** (`sncapapi.c`).  *State:* the connection and one record document.
*Operations:* connect, check of versions, activate or deactivate with its checks, wait for the
response, query.  *Hard:* check and command are not atomic, the query after the change decides the
exit code, timeouts.  *Correct when:* a change stays within the record's limits and the exit code
tells what the SE did.

**sncap main, options and job** (`sncap.c`, `sncapjob.c`).  *State:* the job, the set of options seen, the
section in use.  *Operations:* one handler per option, one completion step per field, the checks of
`job_verify`, one function per operation.  *Hard:* three sources for each field, options in any order.
*Correct when:* the order of options means nothing, what is decided stays, a job that reaches the server
is complete.

**sncap configuration** (`sncapconf.c`).  *State:* sections with their properties.  *Operations:* find the
file, parse, verify, look up by CPC identifier, alias or address.  *Hard:* two comparisons of
identifiers that differ.  *Correct when:* what the file defines is found, and in one section.

**sncap record documents** (`sncapdsm.c`, `sncaptcr.c`).  *State:* the automaton, its buffer, the stack of open
nodes, the tree.  *Operations:* one per kind of character, one per field.  *Hard:* tags in any order drive
two cooperating machines; errors that do not end the loop.  *Correct when:* the record is the one that was
written.

**sncap CPC and utilities** (`sncapcpc.c`, `sncaputil.c`), **plugin descriptions**
(`snipl_stonith_plugin.h`, `stonith_config_xml.h`: constants) and the **build files and documents**.

What is hard to test in each of these, line by line, is the list `hazards` of `PROJECT.json`; each
entry names the properties that cover it, or says why none does.

## Modules

| Module | Models | Composition |
|---|---|---|
| `CorrelatedCommand` | the promise: a command is reported as acknowledged only if that command was carried out | abstract |
| `HwmcaCommand` | `command_handling` and `parse_command_response`, several processes, one SE | implements `CorrelatedCommand` |
| `Stonith` | `lic_vps_reset_req` with `reset_req2`, `lic_vps_status`, `snipl_prepare`, over persistent server objects | |
| `Snconfig` | the configuration of snipl: its file line by line, the uniqueness check, the searches | |
| `SniplOptions` | the options of snipl: what excludes what, what each type of server objects to, the operands of a command | |
| `SniplMain` | a call of snipl from its options to the commands it gives | extends `Snconfig` and `SniplOptions` |
| `VmRpc` | the session token of the RPC interface | |
| `SniplCommand` | `command_processing` with the byte stream of `vmsmapi6.c` and the token of `vmsmapi.c` | extends `VmRpc` |
| `TextLine` | the promise: an endless line of blanks, sent as it stands | abstract |
| `LineEditor` | the keys of `snipl_image_dialog`, `handle_del`, `handle_esc` | implements `TextLine` |
| `LparDialog` | both processes of a dialog, the SE's message sessions | |
| `SncapConfig` | the configuration file of sncap and the searches in it | |
| `SncapJob` | a call of sncap from its options to a job that is ready for the server | extends `SncapConfig` |
| `SncapRecord` | `main` of sncap with `sncap_change_activation_level`, `call_HwmcaCommand`, `wait_response_event` | |
| `DsmParser` | the parser of record documents: an automaton over characters, nodes on a stack | |
| `TcrData` | what sncap takes from the tree of a document | extends `DsmParser` |
| `HwmcaCommandProofs`, `StonithProofs`, `SniplMainProofs`, `SniplCommandProofs`, `DialogProofs`, `SncapJobProofs`, `SncapRecordProofs`, `TcrDataProofs` | theorems | extend the module they are named after; `DialogProofs` extends `LineEditor` and `LparDialog`, and `TcrDataProofs` is about `DsmParser` too |
| `MC...` | constants for TLC | extend the modules |

The calls of snipl divide into `SniplMain`, which ends with the list of commands, and `SniplCommand`,
which begins with a list of images and says how the operations on them go; the one image of an SE is
looked at more closely in `HwmcaCommand`.  In the same way `SncapJob` ends where `SncapRecord` begins.

**HwmcaCommand.**  A process owns a session whose received events are `queue[p]`.  `SendCommand` and
`SendFails` are `HwmcaCorrelatedCommand` (the SE may have got a command whose send reports an error);
`SkipEvent`, `Decide`, `LargeEvent`, `WaitTimeout`, `WaitFails` are the branches of the wait loop
(`sniplapi.c:844-905`), of which `WaitTimeout` waits again; `Foreign` and `Accepted` are the return
values 2 and 1 of `parse_command_response`, everything else its 0.  An event keeps the fields the code
compares; the shape of its field list is `kind`.  The field `origin` says which command an event
answers: no action of a process reads it, the properties do.  The SE (`Complete`, `Progress`, `Broadcast`,
`OtherApplication`) is external, and so is the pace of the clock.  A correlator is
`Rand[stime] + Pid[p]`, as `sniplapi.c:787-789` draws it.  The *n*-th command of a process is
`Plan[p][n]`: a command line gives its images in turn and goes on after a failure, a dialog gives
commands to one LPAR and ends with the first failure.

**Stonith.**  `server[s]` has the fields of `struct snipl_server` that outlive a request.  `mood[s]`
is how a server behaves while one request runs, chosen anew with every request; `MoodsOf` leaves out
what a server of a type cannot do (an SE shows no certificate).  `FindServer`/`NoServer` are the loop
of `lic_vps_reset_req`; `Prepare`, `Login`, `Fallback`, `Operate`, `Logout` are `reset_req2` up to each of
its exits.  With an SE the operation has two halves: `SendCommand`, and `Await`, which an SE in the mood
`"silent"` never allows, while `WaitAgain` starts the wait over as often as it takes (`sniplapi.c:841-855`).
`Returned` is what `reset_req2` does with the result: a server in the mood `"mute"` may have carried the
command out although the call ends with an error, because the answer was lost or late
(`vmsmapi6.c:424-477`), or because the send or the wait failed (`sniplapi.c:824`, `856`, `875`); then the
next server is asked.  So `executed` is a set.  `StatusServer`, `StatusFallback`, `StatusEnd` are `lic_vps_status`.  `CreateMsg`, `Message`,
`NewPriv`, `Prepared`, `Checked`, `LoggedIn`, `LoggedOut` say what each call does to the record, errors
included.  `corrupt` records that freed memory was used; after that the process may die (`Abort`) or
not, as the allocator has it.  `lost` counts descriptors nothing refers to any more.

**Snconfig, SniplOptions, SniplMain.**  A line of the file is its key with a value; of a value only
equality, and whether `conf_set_attribute` refuses it, is kept.  `Parse...` are the branches of
`conf_parse_line`, `Report` what a return code leads to; `MissingType`, `Duplicate`, `NextPair`, `NextServer`
are the two nested loops of `check_systems_unique`.  `Option` is one turn of `parse_command_input`, with
`Set` for the parameters and `Told` for the server; `ConflictIn` is the table of
`invalid_option_combinations`, `VmObjections` and `LparObjections` are the checks of the two libraries, of which the
first counts for z/VM and the last for an LPAR, as in the code.  `Candidate` is the choice among the
searches of `configfile_handling`, `Used` what the section that was found does to the server, `Operated`
what an operation leaves in `server->parms` for the next image.

**VmRpc, SniplCommand.**  `token` is `priv->session_token`, `valid` the one VSMSERVE takes next.
`RpcAnswered`, `RpcRejected` and `RpcUnanswered` are what a call of `rpcgen`'s client brings.  The code
copies the token at fourteen places, one for each form of answer of each operation: `SavedBy...` list
those of an operation that have the `memcpy`, and `Kept` looks the place up.  `pc`, `image` and `ret` are the ones of
`command_processing`.  The bytes between server and snipl are sequences of units of two bytes, marked
with the image they answer and whether they are zero: `stream` (sent), `buffer` (arrived), `outlist` (the
buffer of `vm6_recv_all`, which every `recv` writes from its start).  `Receive`, `ReceiveLast`,
`ReceiveEnd` and `WaitTimeout` are one turn of `vm6_recv_all` each.  `Faults` selects what the environment may
do wrong.  `Close` cuts what the server still had to send at any unit.  With the SE the outcome of an operation is
a choice; `SendLpar` and `AwaitLpar` are the two halves of the command, and `WaitAgain` is the wait without a limit.

**LineEditor.**  One action per key; `command_string`, `current`, `last` are the variables of
`snipl_image_dialog`.  The refinement mapping `Tape` forgets what lies behind `last`.

**LparDialog.**  `parent` and `child` are the two control states.  The parent's copy of the handle
is constantly session 1, so only the child's, `handle`, is a variable.  `WaitEvent` hands over an
event buffer of up to `Batch` messages, `Parse` is one turn of the loop over it, which a message of
another LPAR ends; `Terminate` and `Initialize` are the two halves of a reconnect, between which the
child may be killed.  A session that is open and not terminated collects messages in `pending`.

**SncapConfig, SncapJob.**  A configuration is the sequence of its sections with their properties in
order; `ParseLine` is `config_parse_line`, `ValueIsEqual` and `Names` are the two ways in which the code
compares a CPC identifier.  `TakeOption` and `RefuseOption` are a turn of the loop over the options with the
handlers (`Refuses`, `Handled`); every other action is one `job_set_...` step of `job_create` with its
returns.  `Section` is the section that is in use, or else found by address.  `FileVanishes` may happen
between the search for the file and its use.  `Verify` lists the checks of `job_verify` in their order.

**SncapRecord.**  sncap is called `Len(Correlator)` times, one call after the other (`sncap.8` forbids two
at a time on one CPC); `pc` is where `main` is, `rc` its return code, named as in `sncap.h`, `tcr` the
record as the call has read it.  `Checks` lists the checks of `sncap_change_activation_level` in the order
of the code, the first that objects gives the return code.  `Generated` is what `job_generate_xml` puts
into the command.  `SkipEvent`, `Decide`, `LargeEvent`, `WaitTimeout`, `WaitFails` are the branches of
`wait_response_event`.  The SE is external: a command it has accepted stays in `pending` until it is
carried out or refused, also when the call that sent it has long timed out, and the response goes to
whatever session is open then.  `seen` and `whole` in a command say what the call knew when it sent
it: no action reads them, the properties do.

**DsmParser, TcrData.**  A character is `<`, `>`, `/`, a blank or a run of letters.  Each action is a
handler of `sncapdsm.c` in the states where it does one thing; `Goes` is the end of the loop's body,
where state `ERROR` ends the loop and a return code alone does not.  `nodes` keeps the tree as an array with
parents, `stack` the open nodes.  `GetField`, `GetArray` and `Adjust` are `sncap_tcr_get_data` in the order of
`Fields`; `written` is the record the document was written from: no action reads it.  `WrittenFrom` says what that
means without a printer: the elements, listed in the order in which they begin (`Listed`), each have their tags and
text in the document, nested as they are, with blanks anywhere between two tags (`Placed`).  That the documents of the
run are of this kind is an assumption of `MCTcrData`, which TLC evaluates.

## Runs

| Run | Instance | Shows |
|---|---|---|
| `command_line` | 2 processes, 3 commands on 2 LPARs, 2 ticks; lost events, responses that overflow the buffer, 1 event of another application | every acknowledgement is for the command that was carried out; only its own response decides a wait |
| `dialog_session` | a dialog of 2 commands with one correlator, another process on the same LPAR, 2 ticks; partial responses, failing sends and waits | the inductive invariant of the proofs; `HwmcaCommand` refines `CorrelatedCommand`; every wait for an acknowledgement ends |
| `stonith_many` | 3 requests, RESET and POWEROFF; an SE, then a z/VM system over SSL, 8 moods, with lost answers and an SE that never answers | S_OK means done or needless and leaves no session; at most two descriptors are lost for each request and server; a second server acts only if the answer of the first was lost; status is right; a capable server is passed over only for the marks of earlier requests; every request returns unless the SE never answers |
| `snipl` | 2 images, VM with fallback to VM5, or LPAR; all faults but a name that stops resolving | outcomes are their own; 0 means the last image succeeded; every image is tried; a token is rejected only after a call without an answer; snipl ends, also when a z/VM system hangs up in the middle of a response, unless an SE never acknowledges |
| `snipl_main` | files of up to 2 arbitrary lines, with and without a section before them; 2 sections with every kind, images and aliases; 3 servers; every operation with up to 2 further options around it, server given or from the file | the file is understood as written; accepted files have no two sections alike; the right section is used; the command line wins; names are kept; commands carry what was said |
| `sncap_job` | every 2 options, every option before and behind 5 command lines, files of up to 3 lines and of 2 sections, every place of a file, removed while it is read | options mean the same in every order; what is missing comes from one section; what is defined is found; a job that goes to the server is complete; nothing decided is overwritten |
| `sncap_record` | 2 calls, 14 jobs that pass or fail each check, 1 change by an operator, 1 foreign event, all faults but partial responses | 0 means that the SE did what this call asked; a code that blames the request means that the record is untouched; a whole deactivation leaves nothing active; a model raises the capacity; every call ends |
| `record_document` | records with any element missing, doubled, retold or out of order; one damaged by one character anywhere or cut off; every sequence of up to 6 characters and up to 5 tags; a stack of 4 | fields and arrays are the ones that were written; complete records and no others are accepted; the stack is a path; the tree is final once its root is closed |
| `line_editor` | 4 columns, 2 letters and the blank, 3 lines | what is sent is what an endless line of blanks would show |
| `lpar_dialog` | 2 LPARs, 3 messages, 1 command, 1 broken connection, 1 message per buffer | messages appear once and in order; none is forgotten; the dialog ends, unless the terminal is hung up or the SE never acknowledges a command |
| `stonith_impostor` | violation | S_OK after a certificate error, nothing done |
| `snipl_exit` | violation | the exit code hides that the first of two images failed |

*Why these bounds are enough.*  A wrong acknowledgement needs one command whose response is taken for
another's: two processes, or two commands of one process, and one LPAR they share.  The correlators
of the instance are neighbours and distinct, as they are for two processes that live at the same time
unless the clock steps and the pids conspire; with `Tick = {0, 1}` a process may draw the same or another
one for its second command.  A search through servers needs one that fails and one behind it, and both
types; what a request leaves behind shows in the second or the third one, and for every number the
theorems about `Stonith` hold.  A response that is taken for another's needs two images on one connection, and
since every image has a login of its own a third adds no new pair.  The unread rest of a response is as long as a
request id (`Rest = 2`), the length with which it would be mistaken most easily; the theorem is for every length.
In `stonith_many` the mood `"failing"` is not listed: a server that is mute and does nothing fails in the same way.
The moods `"impostor"` (a run of its own), `"down"`, `"vsmserve_mute"` and `"vsmserve_refuses"` are in the theorems only.  The searches of `snconfig.c` tell
apart a first and a second section, of one address or two; that a pair further behind is compared as
well is what the files of three servers are for, and the theorem.  Two options can conflict or be
doubled; a third, the operation, stands between them.  `DSM_STACK_DEPTH` is 20 in the code: its value is
used in a comparison only, and with 4 the documents reach it.  Six characters are the shortest document
with a node and one character to spare at each place.  Shifting characters needs a column before, at and
behind the cursor and one that keeps its old content over the end of a line: four columns and two
lines.  A reconnect changes the handle once; the second message tells the sessions apart.  What one call of
sncap leaves behind at the SE meets the next one: two calls.  Two processor types, one of which the
record does not define, and three models are what the checks tell apart; two real activations let a
second call find the record active at a higher model.

*Bounds in the modules:* `MaxNoise` (events of other applications), `MaxRequests`, `Images`, `Rest`
(what follows the fields snipl reads of a response), `Width`, `MaxSent`, `Batch`, `MaxMessage`,
`MaxSession`, `MaxCommand`, `MaxOperator` (changes at the SE), `Correlator` (its length is the number
of calls), `Input` and `Sent` (the calls, files and documents that are looked at).  Runs that say
`CHECK_DEADLOCK FALSE` are those whose processes may all have logged out, and the editor, whose
`MaxSent` is used up.

Every property of a passing run has a mutant in `PROJECT.json`: a plausible mistake (operators `Bug...`
next to the definition they change) with which TLC finds the property violated.

## Fairness

- `HwmcaCommand!FairSpec`: a process takes an event that is there (weak fairness of
  `SkipEvent \/ Decide \/ LargeEvent`), and the SE completes what it has accepted.  Nothing is assumed of
  other applications, and no process need give its next command.  `dialog_session` has no lost events:
  that is a choice of `Faults`, not a matter of fairness; with them the wait does not end (Divergences).
- `Stonith!FairSpec`: one weak fairness condition for the steps of a request that has begun, since
  the plugin is a sequential program.  With z/VM calls return: connect and `recv` have time limits in the
  code.  The wait for an SE has none, and nothing is assumed of the SE: in the mood `"silent"` the wait
  goes on for ever, and `EveryRequestReturns` says that this is the only case.  No fairness on requests.
- `SniplCommand!FairSpec`: snipl is sequential (one condition for all its actions but the
  end of the wait for an SE); the network delivers what was sent (`Arrive`); a request server answers or chooses not
  to when `no_answer` is among its faults (`Serve`).  `Close` and `AwaitLpar` are not fair: `SniplEnds` has the
  exception of an SE that never acknowledges a command.
- `LparDialog!FairSpec`: both processes run, and the user at last types Ctrl-D or the terminal is hung up.
  No condition forces a message, a fault, a command, its acknowledgement or a broken connection; a command that is
  never acknowledged is an exception in `DialogEnds`.  There is none on `Parent` as a whole, because a user may type commands for ever; the
  bound `MaxCommand` makes no difference to it.
- `SncapRecord!FairSpec`: one weak fairness condition for the steps of a call that do not fail; nothing is
  assumed of the SE, and no failure is forced.  `HwmcaWaitEvent` has a time limit (`sncapapi.c:93`), so the
  wait ends without the SE's help.

`SniplMain`, `SncapJob`, `DsmParser` and `TcrData` walk through finite inputs and deadlock is checked, so that
they reach their ends needs no fairness of its own.

## Proofs

Every theorem holds for all values of the constants that satisfy the assumption of its module;
further conditions are in its statement.

| Module | Theorem | Conditions |
|---|---|---|
| `HwmcaCommandProofs` | `TypeCorrect`: `TypeOK` | |
| | `InductiveInvariant`: `IInv`, `Acknowledgement`: `AckIsOwn`, `Refinement`: `ImplementsPromise` | `CorrelatorsDistinct`, `ImagesDistinct` |
| | `OwnResponseDecides`: `OwnEventDecides` | the same, and no `"untyped"` events |
| `StonithProofs` | `FencedMeansDone`: `OkMeansDone`, `HeardOnce`: `AgainOnlyUnheard`, `NoSessionLeft`: `IInv` | `NoImpostor` |
| | `GivenUpForAReason`: `UnlessMarked`, `StatusTells`: `StatusIsRight` | the same, `RefusalsShow`, `AllInstalled` |
| `SniplMainProofs` | `SectionsAreUnique`: `AcceptedMeansUnique`, `CallStaysTyped`: `IInv`, `FileIsUnderstood`: `ParsedAsWritten` | |
| | `UsesRightSection`: `RightSection`, `CommandLineGoesFirst`: `CommandLineWins` | |
| | `CommandsAreAsTold`: `CommandsAsTold` | `NumbersFit` |
| | `NamesGoThrough`: `NamesAreKept` | `NamesTyped` |
| `SniplCommandProofs` | `NoneIsLeftOut`: `EveryImageTried`, `ReturnIsTheLast`: `ZeroMeansLastDone`, `TokenStays`: `TokenIsKept`, `StaysTyped`: `IInv` | |
| | `ReadsItsOwn`: `OutcomeIsOwn` | no fault `"resolve"` |
| `DialogProofs` | `LineTypeCorrect`: `LineTypeOK`, `LineRefines`: `ImplementsTextLine` | `NotBehindTheEnd` |
| | `DialogOrder`: `LparDialog!IInv`, which is `ShownInOrder` with what it needs | |
| `SncapJobProofs` | `DecidedStays`: `NothingOverwritten`, `JobStaysTyped`: `IInv`, `OrderIsIrrelevant`: `OptionsAsASet`, `OneSectionDecides`: `OneSection`, `WhatIsDefinedIsFound`: `DefinedIsFound` | |
| `SncapRecordProofs` | `RecordStaysWithinLimits`: `TypeOK`, `ChangesAreMeant`: `DoneAsMeant` | |
| | `BlameMeansUntouched`: `IInv` | `CorrelatorsDistinct` |
| | `ZeroIsDone`: `ZeroMeansDone` | the same, and no `"partial"` responses |
| `TcrDataProofs` | `ParserTypeCorrect`, `StackStaysPath`: `StackIsPath`, `RootStaysFinal`: `RootIsFinal` | |
| | `RecordStaysAsWritten`: `RecordAsWritten`, `CompleteStaysAccepted`: `CompleteIsAccepted`, `WrittenIsParsed`, `WrittenNeverCrashes` | `Truthful` |

Divergences shows the behaviour that `ImagesDistinct`, the faults, `NoImpostor`, `RefusalsShow`, `AllInstalled`, `NumbersFit`,
`NotBehindTheEnd` and the `CorrelatorsDistinct` of `SncapRecord` leave out.  The `CorrelatorsDistinct` of
`HwmcaCommand` is its counterpart for two processes.  `NamesTyped` leaves out names that a user cannot well type: ones
with a newline, the character the code puts in place of a hyphen.

*What the modules assume.*  Besides the types of the constants: `OrderAssumption` (every server is in the
list of the plugin, once), `ArgumentAssumption` and the part of `SncapJobAssumption` about `WithText`
(`getopt` hands an option that takes an argument a string), and that the value of a line of a file
is a string: the parsers of both programs split a line at its separator and never leave it out.

*Data.*  The provers cannot apply an induction theorem.  Two forms of argument do without one: the
smallest index at which a property fails is one at which it holds of the index before
(`LeastNatural`), which is how the recursive functions `Resolved` and `Parsed` and the searches for a section are
dealt with; and where the program itself walks along the data, the invariant says what it has done so
far.

### HwmcaCommand

`CorrelatorsDistinct` says that different processes never draw the same correlator.  The code makes
this likely (the pid is added to the random number), not certain; the theorem names what it depends on.
`ImagesDistinct` says that outside a dialog no process names an image twice.  The command line allows
it, and then `AckIsOwn` fails (see Divergences): the assumption is needed.  A dialog needs neither a
second clock tick nor distinct images, because it ends with the first command that fails.

*The invariant.*  `AckIsOwn` is not inductive: nothing in it says that a response in a queue tells
the truth or that no old response for the same target and correlator is left.  `IInv` adds

- `PendingInv`: the SE works on commands that were given, each once, with a correlator of its process;
- `QueueInv`: an event with a correlator answers a given command, names its target, and a successful
  last response says that the command was carried out;
- `LastInv`: a command whose last response is in a queue is not pending, and the response is there
  once;
- `AckedInv`: the last response to an acknowledged command is in no queue of its process and will not be;
- `DialogInv`: in a dialog that still runs every earlier command was acknowledged;
- `WaitInv`: the correlator a process compares with is one of its own.

*The argument.*  `Decide` acknowledges only an event that names the target, carries the correlator and
is the last one.  By `QueueInv` it answers some given command with a correlator of that command's
process, which by `CorrelatorsDistinct` is the waiting process.  If it answered an earlier command of
that process, then outside a dialog `ImagesDistinct` makes the target differ; in a dialog `DialogInv`
says that the earlier command was acknowledged, and `AckedInv` that its last response is gone.  So it
answers the command under way, which `QueueInv` says was carried out.  The proof has one step per action
and conjunct; events in the queue after a step are traced to the queue before it or to an answer by
`QueueContents`, new outcomes to the actions that return by `OutcomeSteps` and `NewOutcome`.  `Refinement`
follows from the same invariant: a step of `SendCommand` maps to `Issue`, `SendFails` to `Abandon`, the ends of
a wait to `Report`, `Complete` to `Execute` or a stutter, all others to a stutter; `Report` of an
acknowledgement needs `AckIsOwn` in the next state.

`OwnEventDecides` speaks of refusals too, and of responses that are not the last one.  So the last response to
a command must be the last of all in the queue (`OrderInv`: the SE appends it when the command stops being pending), and then
an acknowledged command has left nothing behind (`GoneInv`).  An event with an unexpected type in the place
of the correlator is refused before anything is compared, hence the third condition.

### Stonith

`NoImpostor` leaves out the mood for which `OkMeansDone` is false.  `SInv` adds where the request is: only an
executed or needless command leads to the label `logout`, and while servers are searched, a server that has carried
out the request lies behind and was mute (`Carried`), since any other would have ended the search.  From this
`HeardOnce` follows: of two servers that acted the earlier one was left with an error.  Since every helper may change the record of a server, errors included, one lemma per
helper says that the record stays sound; the steps of the plugin then only say which server they touch.

`NoSessionLeft` needs to know what a step costs.  `Losses` says that what a server object has open or has lost is
covered by two for each request before this one and by what this one has `Spent` with it so far: nothing before a
login, one after the first, two after the second, which only the fallback to VSMSERVE makes.  One lemma per helper
counts the descriptors it opens and closes.

`GivenUp` is the invariant for the two properties that say when the plugin is *right* to give up.  It adds
that every server behind the search was no use or marked (`Search`, `StatusSearch`); that a server that could
carry out the request still shows, at each label, the mood from which the next call succeeds; that
the mark is the only thing an earlier request leaves (`Kinds`, `FirstRequest`).  `RefusalsShow` says that a refused connection
is either impossible or noticed, which without encryption it is not, and `AllInstalled` that no
library is missing.

### SniplMain and SniplCommand

`check_systems_unique` keeps two indices.  `UInv` says that the pairs behind them have been compared, that
an end with anything but FATAL means that both loops were walked to their end, and that sections no longer
change; symmetry of `Clash` for two sections with types makes one order of a pair enough.
`ParsedInv` says for every line number that the sections are those of the lines before it
(`WrittenSoFar`), which is `ParsedAsWritten` at the end of the file.

A call is followed by three invariants, each on top of the other.  `CallInv2`: the options read so far
have set what they say and nothing else (`ToldSoFar`), the section that was found fits, and at the login
an attribute is the option's, else the section's, else the default (`Chosen`, `FromBoth`, `Finally`).  Its difficult part is that
the three searches find the one section that fits, if one does (`SoleIsFound`), and only a section that fits
(`UsableFits`).  `CommandInv`: before the first load the parameters are as told, after it as told with defaults
filled in (`BeforeLoad`, `AfterLoad`), so a second image gets what the first got; `NumbersFit` keeps a number from being cut
to 16 bits.  `NamesInv`: the images are the names of the command line, turned round by `Pushed` and resolved in
the section; `NamesTyped` says that no name holds the newline which stands for a hyphen.

`LoopInv` says that the images before the current one have been tried and the ones behind it have not,
that `ret` is about the current one, and that the token is the one VSMSERVE expects unless the call
for an earlier image had no answer.  Bytes and sockets are not in it: a lemma (`Unobserved`) keeps the network out
of the case distinction.  `OutcomeIsOwn` is about the bytes.  `Wire` says where every byte of the current response is:
what was taken, what is in the buffer of the socket and what is still under way make one response, each
unit at its place (`Coming`), to the one request that was sent (`Pending`); before a request there is silence
(`Ahead`), since a new connection has nothing of the old.  If the name stops resolving, the old
connection stays, and this is false.

### LineEditor

`LineTypeOK` bounds cursor and length and says that no end-of-string stands before the end of the line; without
the latter `strlen` of the code would not be the length.  The refinement shows, key by key, that `Tape`
of the line after the key is what the endless line becomes.  `NotBehindTheEnd` leaves out Delete behind the
last column, for which the refinement is false.

### LparDialog

`ShownInOrder` is about what was printed.  What is printed next comes from an event buffer, and that from what the SE
holds for the session of the child.  So `OnTheWay` says that these three, one behind the other, are messages in the order they
were written: `WaitEvent` moves messages from the third to the second, `Parse` from the second to the first or drops
the rest of the second, a new message is later than all others, and a new session holds nothing, because nobody has opened it before
(`SessionsInOrder`).  A reconnect therefore loses messages but repeats none.  The lemmas say of sequences of messages
what joining (`ConcatOrdered`), taking the head (`HeadMoves`) and splitting (`SplitQueue`) do to the order.

### SncapJob

`Untouched`: a field that is not in `option_specified` has its first value while options are read.  So a
handler never meets a field that is set, and behind the loop every step tests for NULL first.

All other theorems come from one invariant, `MadeInv`.  `OptionsSoFar` is `OptionsAsASet` for the options taken so
far.  `Sought` says which fields the command line still has the only say on at each label.  `Looked` says that what it leaves
open comes from the section `Used`, which depends only on the command line and the file, although the code
looks for a section at three places; after each `job_set_...` step its field is decided
(`PasswordFound`, `EncryptionFound`, `UserFound`, `AddressFound`).  `Named` says that the CPC was found
among the identifiers that are `Listed`; `DefinedIsFound` follows by the least section with such a line.  The verdict of `Verify` is a list of checks of which
the first that objects counts; one lemma for each turns it into what a job that passes all of them has.

### SncapRecord

Four layers, each with the next in mind.  `SafeType`: the record is within its limits because every command under way was
generated for a record as some call read it, whatever it is now, and the SE refuses what does not fit
when it comes to it.  `CommandInv`: a call has at most one command, carried out at most once, none before it is sent.
`ExchangeInv`: an event that a call takes for its answer, and that refuses, is true and stays true; this needs
`CorrelatorsDistinct`, since the answers of earlier calls, which timed out, are in the same queue.  `DoneInv`: an OK in the
queue is that of a command carried out, which a response that is not the last one need not be: hence the
condition on `"partial"`.  `ChangesAreMeant` needs only the second layer.

### DsmParser

`ParserInv` has the types, `StackIsPath` and `NoTagBehindRoot`: once the root is set the automaton is never inside
a tag, so it neither opens nor closes a node again.  That the buffer never overflows is part of the types: it has
as many characters as the document, less one, and the `<` a tag begins with is never put into it.

### TcrData

`Truthful` says that a document which claims to come from a record was written from it (`WrittenFrom`, with names and
texts that hold no character of the markup), and that the stack takes four open nodes; the code's takes
twenty (`sncapdsm.h:20`).  Nothing is assumed of damaged documents: that the program can crash on them is listed under
Divergences.  The record may have any number of elements, in any order, with any of them missing, doubled or foreign.
`TcrInv` follows the document through the program:

- *The parser.*  `Progress` tells how far it has come in the list of elements: the nodes are those of the start tags
  behind it (`Counted`, `Copied`), the stack holds exactly the elements around it (`Nested`), and it is in a start tag, an end tag, a
  text or among blanks, with the buffer that belongs there (`Somewhere`).  Each of the steps is one lemma.  They
  rest on `Apart`: a position belongs to one tag only, since elements are nested or apart; hence the element
  that begins next is the next of the list (`NextBegins`), and the one that ends is on top of the stack (`TopCloses`).
- *The tree.*  At the end it is `Built`: each entry is a node with its parent and its text, and so the tree `Mirrors` the
  record.  `Lookup` and `AllFacts` say what `Find` and `All` return on it: the first element of a name among the
  direct children of a node, and all of them in their order.  This is why no field of a processor or a target is
  mistaken for one of the record.
- *The fields.*  `FieldInv` says that the fields taken so far are complete and the ones that were meant (`StoredIn`), and that the
  start of the activation is skipped exactly if the record was not written as active, which is known by then because
  the status was taken before it.  A field that does not fit ends the program with an error at once, so
  acceptance means that all fit (`AllFit`).

The functions that walk along a text or a set (`Text`, `Ascending`) are dealt with by the least place at which
what they return would differ.

## Divergences

Two runs show where code and documents part:

- **stonith_impostor.**  `lic_vps.c:347`: a certificate error jumps to the exit that returns S_OK.
- **snipl_exit.**  `snipl.c:1085`: `ret` belongs to the last image; `snipl.8:624` promises 0 for
  success only.

The modules state more properties of this kind that are false; no run is kept for them.  Each can be
reproduced by adding the property to the run named and changing what is said:

| Property | Run and change | What the code does |
|---|---|---|
| `EveryCommandReturns` | `dialog_session` with `Faults = {"lost"}` | a timeout is answered with a dot and the wait goes on without limit (`sniplapi.c:849`); `README.snipl:268` and `snipl.8:682` promise a message and an error code |
| `AckIsOwn` | `command_line` with a plan that names one image twice, `Faults = {"send_error"}` | the response to the first command, whose send reported an error, is taken for the second's; the correlator (`sniplapi.c:787`) is constant for two seconds, while the comment at 1281 calls it what relates a response to its command |
| `OwnEventDecides` | `command_line` with `"untyped"` among `Faults` | an event of another application whose twelfth field is no octet string ends the wait with "not acknowledged - no command correlator" (`sniplapi.c:1303`) |
| `UnlessMarked` without "`=> Marked(s)`" | `stonith_many` | POWEROFF sets `parms.force` for good (`lic_vps.c:390`), and the check of later requests refuses it (`snconfig.c:786`); after one failed login the type stays VM5 (`lic_vps.c:351`), whatever the configuration file says |
| `UnlessMarked` | `stonith_many` with `Encrypted = {}` and the mood `"vsmserve_refuses"` for `"refuses"` | a refused connection counts as a login (`vmsmapi6.c:229`), so the fallback to VSMSERVE (`snipl.8:602`) is never tried |
| `StatusIsRight` | `stonith_many` with `Encrypted = {}` | the status request reports such a server as operational (`lic_vps.c:216`, comment at 203) |
| `DoneOnce` | `stonith_many` | an answer that is lost or late, and a wait that fails, end with S_OOPS (`lic_vps.c:369-374`) like a refusal, and the next server carries the request out again (`lic_vps.c:453`) |
| `EveryRequestReturns` without `NeverAnswered` | `stonith_many` | the wait for the acknowledgement starts over at every timeout (`sniplapi.c:849`): an SE that never answers holds the cluster manager's request for ever |
| `MessageIsLive` | `stonith_many` | `server->problem` is freed and kept (`lic_vps.c:412`), then freed again by `create_msg` |
| `MissingLparIsReported` | `stonith_many` | an image id left by an earlier login hides that the LPAR is gone (`sniplapi.c:651`; `snipl.8:652`) |
| `StatusAnswers` | `stonith_many` with `Installed = {"VM", "LPAR"}` | functions of an unloaded library are called (`lic_vps.c:224`; `snipl.8:665`) |
| `OutcomeIsOwn` | `snipl` with `Faults <- AllFaults` | if the name stops resolving, the old connection with a late response is used on (`vmsmapi6.c:494`) |
| `NotReceivedIsTrue` | `snipl` | a response in several segments is read in full and reported as not received: the length of the last segment is compared (`vmsmapi6.c:376`) |
| `LossIsOver` | `snipl` | after a call without an answer the token may be stale, and a VM5 system is not logged in to again (`snipl.c:1085`): the images behind it are rejected |
| `FirstSelects` | `snipl_main` | the last image selects the section, because each one is put in front of the others (`snipl.c:960`); `snipl.8:163` says the first |
| `NeverCrashes` | `snipl_main` | two sections for an image at one address: the pointer is set to NULL and then used (`snipl.c:497`), while `snipl.8:166` says that the first section is used; without HOME `strlen(NULL)` |
| `ListedIsDefined` | `snipl_main` | if the file has an error, `-x` for a z/VM system lists the images of the command line and returns 0 (`snipl.8:351`) |
| `ScsiOptionsNeedScsi` | `snipl_main` | a port name, LUN or boot record is refused beside other operations only if it is sixteen zeros (`sniplapi.c:217`) |
| `TypeDoesNotMatter` | `snipl_main` | `-X` is refused beside `-L`, and accepted if the file says LPAR |
| `RpcNamedAsGiven` | `snipl_main` | behind the fallback to VM5 the newline stays in the names (`snipl.c:1044`) |
| `ReportsAreTrue` | `snipl_main` | an empty line behind a line with a warning is warned of too (`ret` is the one of the line before) |
| `CommandsAsTold` | `snipl_main` with `Input <- WideInput` | a time-out of 65596 seconds is read as 60 (`%hi`) |
| `ImplementsTextLine` | `line_editor` with key `"delete_at_end"` | Delete behind the last column makes the last one blank (`sniplapi.c:1828`; comment at 1792) |
| `ShownIsPrefix` | `lpar_dialog` with `Batch = 2`, `MaxSession = 1` | messages behind one of another LPAR in the same buffer are dropped (`sniplapi.c:1729`; comment at 1852) |
| `ReconnectIsTried` | `lpar_dialog` | the retry begins with a call over the broken connection and gives up if it fails (`sniplapi.c:1682`; comment at 1674) |
| `DialogAlwaysEnds` | `lpar_dialog` | at the end of the input the parent reads empty lines for ever and the child is never killed (`sniplapi.c:1952`; comment at 1636) |
| `SessionsAreTerminated` | `lpar_dialog` | after a reconnect the parent terminates the session it knows, not the one the child has opened since (`sniplapi.c:1690`; comment at 671) |
| `ActivationNeverLowers` | `sncap_record` | check and command are two calls: a model that would raise the capacity lowers it if an operator has raised it further in between (`sncapapi.c:1206`; comment at 1196) |
| `TimeoutMeansCancelled` | `sncap_record` | a time-out ends the wait, not the command (`sncapapi.c:99`), which `sncaputil.c:57` and `sncap.8:249` call cancelled |
| `ZeroMeansDone` | `sncap_record` with `Faults <- FaultKind` | the last indicator of a response is not looked at (`sncapapi.c:146`): a first part with code 0 counts as success, whatever the last one says |
| `ZeroMeansDone` | `sncap_record` with `Correlator <- MCEqualCalls` | the late response to an earlier command with the same correlator (`sncapapi.c:223-227`: a random number seeded with half the seconds, plus the pid) is taken for this one's |
| `NeverCrashes` | `record_document` | a document that breaks off before its root is closed, or an empty one, is no error, and its root is NULL |
| `RootIsReport` | `record_document` | the name of the outermost element is compared with itself (`sncapdsm.c:140`) |

Seen while modelling, and in the models as the code has it, without a property of their own:

- `sncapdsm.c`: a node more than `DSM_STACK_DEPTH` is written over `head` behind the array (`Overflow`);
  text behind the document is accepted; `sscanf` takes a number with garbage behind it; the days of a
  record are multiplied with 86400 as an `int`.
- `sncapconf.c`, `sncapjob.c`: a property before the first section gets lost; with an alias in its line a CPC
  identifier is found by its beginning (`sncapconf.c:510`) and then not translated (`sncapjob.c:960`), which ends
  as a program error; with `-S` an alias is not translated at all; a file named with `-f` that cannot be read
  gives way to the one in the home directory; without HOME the search for a file crashes; a prompt
  at the end of the input leaves the password uninitialised; `-e` beside a user in the file is an error.
- The comments of `handle_esc` name the two arrow keys the wrong way round; the code is right.
- Hazards that no property is about: `server->ops` of an unloaded library (`prepare.c:91`) as far as `StatusAnswers`
  does not show it; a dialog line that ends with the end of the input has no end of string, and nothing compares the cursor
  with the size of the line (`sniplapi.c:1939`, `1947`); the two names for a time-out (`sniplapi.c:1670`).

## Plan

What is next, most valuable first:

1. Composition: `LparDialog` with `CorrelatedCommand` in place of `CommandEnds`, and `SncapRecord`
   beside a process of `HwmcaCommand` on one SE.
2. The lists of sncap and its query of processors (`sncapapi.c`), which read and print.

## Limits

*Only model-checked:* the liveness properties (`EveryCommandReturns`, `EveryRequestReturns`, `SniplEnds`,
`EveryMessageIsShown`, `DialogEnds`, `EveryCallEnds`), because the provers used do not reason about fairness
and ENABLED.  Every invariant and every action property of the passing runs is a theorem.

*Abstracted:* texts, formatting, tracing and echo; memory other than the pointers named above; the SNMP,
SSL and RPC libraries, whose results are choices.  Which of two codes for a timeout `HwmcaWaitEvent`
returns is not in the repository (`sniplapi.c:849` knows one, `sniplapi.c:1670` the other): each loop is
taken to meet the one it knows.  What a library leaves in a buffer that is too small is a choice
(`LargeEvent`).  What the codes of the SE say of the record is taken from `sncaputil.c:133` and the messages it
leads to: a refusal leaves the record as it was, also with `PARTIAL_CAPACITY`, which `sncaputil.c` turns into
"insufficient hardware".  `ProcMax` is a number: the unlimited `-1` belongs to the type CP, which no job can
name.  Lines longer than `command_string` are bounded by `Width`.  Strings that the code compares without
regard to case are equal when they are in that sense.  VSMSERVE is taken to reject a token that is not its
latest.

*Not modelled:* the lists of sncap and its query of processors, and the tables of processor types; the functions
of the plugin that only build or describe its configuration; `snipl_lpar_image_get_status` and the list of images on an
SE; the exchange of certificates beyond its result; plugin descriptions, help, messages and their texts; the build.
`PROJECT.json` says for each component what is left out.
