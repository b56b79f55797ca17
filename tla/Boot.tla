-------------------------------- MODULE Boot --------------------------------
(***************************************************************************)
(* Start-up, configuration and updates (main/main.c, config_reader.c,      *)
(* app_http.c and the sys commands of app_console.c): what survives a      *)
(* reset, and what each boot makes of it.                                  *)
(*                                                                         *)
(* app_main() brings the device up in a fixed order.  The shell runs from  *)
(* the third step on, the web server from the fifth, both next to          *)
(* app_main(), and power may go at any moment.  An image that was uploaded *)
(* boots on trial: the bootloader goes back to the one before unless       *)
(* app_main(), or the user, has confirmed it by the next reset.            *)
(*                                                                         *)
(* Assumed of the external components: config_store_write() replaces the   *)
(* file in one step, the managers of step 4 and 6 accept any section, also *)
(* a zeroed or half-read one (else ESP_ERROR_CHECK() would abort at every  *)
(* boot), and http_server_start() refuses one without a password           *)
(* (main.c:105).                                                           *)
(***************************************************************************)
EXTENDS Naturals

CONSTANTS Images,          (* the firmware images there are                *)
          Factory,         (* the one flashed over a cable                 *)
          CrashesAt,       (* step at which each crashes, "never" if none  *)
          Docs,            (* configuration files                          *)
          FailsIn,         (* per image and file: the part that fails to   *)
                           (* parse, or "none"                             *)
          WithPassword,    (* files that give the web server a password    *)
          FirstFiles,      (* what the partition may hold after flashing   *)
          MaxEvents,       (* bound: uploads, commands, power cuts, errors *)
          NoImage, NoFile

(* app_config_full_t: the scalars, then APP_CONFIG_SECTIONS in their order. *)
Parts    == {"top", "wifi", "mqtt", "ntp", "http"}
Position == [top |-> 1, wifi |-> 2, mqtt |-> 3, ntp |-> 4, http |-> 5]

(* Where app_main() is: at the bootloader, before a step, or done.         *)
Places  == {"bootloader", "output", "config", "shell", "services", "http", "wifi",
            "status", "confirm", "ready"}
Follows == [output |-> "config", config |-> "shell", shell |-> "services",
            services |-> "http", http |-> "wifi", wifi |-> "status",
            status |-> "confirm", confirm |-> "ready"]

ASSUME BootAssumption ==
    /\ Factory \in Images /\ NoImage \notin Images
    /\ NoFile \notin Docs /\ FirstFiles \subseteq Docs \cup {NoFile}
    /\ WithPassword \subseteq Docs
    /\ CrashesAt \in [Images -> {"never", "shell", "services", "http", "wifi", "status"}]
    /\ CrashesAt[Factory] = "never"
    /\ FailsIn \in [Images -> [Docs -> Parts \cup {"none"}]]
    /\ MaxEvents \in Nat

VARIABLES
    otadata,   (* bootloader: active and previous image, state of active   *)
    file,      (* /res/config.json                                         *)
    running,   (* the image that runs                                      *)
    pc,        (* where app_main() is                                      *)
    config,    (* s_config: what each part holds, and the file it is from  *)
    http,      (* the web server is listening                              *)
    post,      (* handle_config_post(): where it is, and its buffer        *)
    due,       (* a restart has been scheduled                             *)
    writer,    (* history: the image that checked `file`                   *)
    acked,     (* history: the file as the user last heard of it           *)
    offered,   (* history: files accepted since, and not answered yet      *)
    proven,    (* history: images that came up, or the user vouched for    *)
    rash,      (* history: the user confirmed one that cannot come up      *)
    events     (* how much of MaxEvents has happened                       *)

flash   == <<otadata, file>>
history == <<writer, acked, offered, proven, rash>>
vars    == <<otadata, file, running, pc, config, http, post, due, history, events>>

Files  == Docs \cup {NoFile}
Filled == {"zero", "default", "parsed", "torn"}
NoPost == [at |-> "none", doc |-> NoFile]
Zeroed == [parts |-> [p \in Parts |-> "zero"], doc |-> NoFile, by |-> NoImage]

Otadata == [active : Images, previous : Images \cup {NoImage},
            state : {"new", "pending", "valid"}]
Configs == [parts : [Parts -> Filled], doc : Files, by : Images \cup {NoImage}]
Posts   == [at : {"none", "parse", "write", "respond"}, doc : Files]

TypeOK ==
    /\ otadata \in Otadata
    /\ file \in Files /\ acked \in Files /\ offered \subseteq Docs
    /\ running \in Images /\ writer \in Images \cup {NoImage}
    /\ pc \in Places
    /\ config \in Configs
    /\ post \in Posts
    /\ http \in BOOLEAN /\ due \in BOOLEAN /\ rash \in BOOLEAN
    /\ proven \subseteq Images
    /\ events \in 0 .. MaxEvents

Init ==
    /\ otadata = [active |-> Factory, previous |-> NoImage, state |-> "valid"]
    /\ file \in FirstFiles
    /\ running = Factory
    /\ pc = "bootloader"
    /\ config = Zeroed
    /\ http = FALSE /\ post = NoPost /\ due = FALSE
    /\ writer = NoImage /\ acked = file /\ offered = {}
    /\ proven = {Factory} /\ rash = FALSE
    /\ events = 0

-----------------------------------------------------------------------------
(* Resets and the bootloader                                               *)

(* Everything in RAM is gone.                                              *)
Reset ==
    /\ pc' = "bootloader"
    /\ config' = Zeroed
    /\ http' = FALSE /\ post' = NoPost /\ due' = FALSE
    /\ UNCHANGED <<file, running, history>>

Event == events < MaxEvents /\ events' = events + 1

(* A power cut, a crash, an ESP_ERROR_CHECK() that fails: abort().         *)
PowerCut == pc # "bootloader" /\ Event /\ Reset /\ UNCHANGED otadata

(* The timer of config_store_schedule_restart().                           *)
RestartDue == due /\ Reset /\ UNCHANGED <<otadata, events>>

(* An image left unconfirmed is given up for the one before it.            *)
BootSelection ==
    IF otadata.state = "pending"
    THEN [active |-> otadata.previous, previous |-> NoImage, state |-> "valid"]
    ELSE [otadata EXCEPT !.state = IF @ = "new" THEN "pending" ELSE @]

Bootloader ==
    /\ pc = "bootloader"
    /\ otadata' = BootSelection
    /\ running' = otadata'.active
    /\ pc' = "output"
    /\ UNCHANGED <<file, config, http, post, due, history, events>>

-----------------------------------------------------------------------------
(* app_main()                                                              *)

(* app_main() reaches step p, and the image does not crash in it.          *)
At(p) == pc = p /\ CrashesAt[running] # p

(* ota_mark_valid(), of the running image.                                 *)
MarkedValid == [otadata EXCEPT !.state = "valid"]
PendingVerify == otadata.state = "pending"

(* Variant: an image confirms itself before WiFi is up.                    *)
ConfirmEarly(p) ==
    /\ At(p)
    /\ otadata' = IF PendingVerify THEN MarkedValid ELSE otadata
    /\ pc' = Follows[p]
    /\ UNCHANGED <<file, running, config, http, post, due, history, events>>

(* Steps that only set something up: output, shell, services, wifi, status *)
BringUp(p) ==
    /\ At(p)
    /\ pc' = Follows[p]
    /\ UNCHANGED <<flash, running, config, http, post, due, history, events>>

(* An image that crashes in its step p, every time.                        *)
Crash ==
    /\ pc = CrashesAt[running]
    /\ Reset
    /\ UNCHANGED <<otadata, events>>

(* parse(): the parts before the one that fails hold their values, the     *)
(* one that fails some of them, those after it zeros.                      *)
parse(image, doc) ==
    LET part == FailsIn[image][doc]
    IN  [p \in Parts |-> IF part = "none" THEN "parsed"
                         ELSE IF p = part THEN "torn"
                         ELSE IF Position[p] < Position[part] THEN "parsed" ELSE "zero"]

Defaults == [p \in Parts |-> "default"]

(* config_reader_load().  No file: the defaults.  One that cannot be read: *)
(* nothing.  Whatever becomes of it, start-up goes on.                     *)
Loaded ==
    IF file = NoFile THEN [parts |-> Defaults, doc |-> NoFile, by |-> NoImage]
    ELSE [parts |-> parse(running, file), doc |-> file, by |-> writer]

config_reader_load ==
    /\ At("config")
    /\ \/ config' = Loaded /\ UNCHANGED events
       \/ config' = Zeroed /\ Event
    /\ pc' = Follows["config"]
    /\ UNCHANGED <<flash, running, http, post, due, history>>

(* mount_filesystem() formats a partition that cannot be mounted.          *)
Formatted ==
    /\ At("config")
    /\ Event
    /\ file' = NoFile /\ acked' = NoFile /\ writer' = NoImage
    /\ UNCHANGED <<otadata, running, pc, config, http, post, due, offered, proven, rash>>

(* What http_server_start() may say to this configuration.                 *)
Servable ==
    IF config.parts["http"] = "torn" THEN BOOLEAN
    ELSE {config.parts["http"] = "parsed" /\ config.doc \in WithPassword}

(* Variant: a server that does not start aborts.                           *)
StartHttpOrAbort ==
    /\ At("http")
    /\ \/ /\ TRUE \in Servable
          /\ http' = TRUE
          /\ pc' = Follows["http"]
          /\ UNCHANGED <<file, running, config, post, due, history>>
       \/ FALSE \in Servable /\ Reset
    /\ UNCHANGED <<otadata, events>>

(* HTTP: a server that does not start is not fatal.                        *)
StartHttp ==
    /\ At("http")
    /\ \/ http' \in Servable /\ UNCHANGED events
       \/ http' = FALSE /\ Event
    /\ pc' = Follows["http"]
    /\ UNCHANGED <<flash, running, config, post, due, history>>

(* Confirmation comes last; app_main() does not look at its result.        *)
Confirm ==
    /\ At("confirm")
    /\ \/ /\ otadata' = IF PendingVerify THEN MarkedValid ELSE otadata
          /\ UNCHANGED events
       \/ PendingVerify /\ Event /\ UNCHANGED otadata
    /\ proven' = proven \cup {running}
    /\ pc' = Follows["confirm"]
    /\ UNCHANGED <<file, running, config, http, post, due, writer, acked, offered, rash>>

-----------------------------------------------------------------------------
(* The shell: restart, confirm, rollback                                   *)

Shell == pc \in {"services", "http", "wifi", "status", "confirm", "ready"}

cmd_sys_restart == Shell /\ Event /\ Reset /\ UNCHANGED otadata

cmd_sys_confirm ==
    /\ Shell /\ PendingVerify
    /\ Event
    /\ otadata' = MarkedValid
    /\ proven' = proven \cup {running}
    /\ rash' = (rash \/ CrashesAt[running] # "never")
    /\ UNCHANGED <<file, running, pc, config, http, post, due, writer, acked, offered>>

(* Without an image to go back to it does nothing.                         *)
cmd_sys_rollback ==
    /\ Shell /\ otadata.previous # NoImage
    /\ Event
    /\ otadata' = [active |-> otadata.previous, previous |-> NoImage, state |-> "valid"]
    /\ Reset

-----------------------------------------------------------------------------
(* The web server: uploads of configurations and of firmware               *)

(* There can be a link once WiFi was started; requests are served singly.  *)
Linked  == pc \in {"status", "confirm", "ready"}
Serving == http /\ Linked /\ post = NoPost

(* The body has arrived.                                                   *)
handle_config_post ==
    /\ Serving
    /\ Event
    /\ \E doc \in Docs : post' = [at |-> "parse", doc |-> doc]
    /\ UNCHANGED <<flash, running, pc, config, http, due, history>>

(* Variant: a file is stored as it came.                                   *)
StoreUnparsed ==
    /\ post.at = "parse"
    /\ post' = [post EXCEPT !.at = "write"]
    /\ offered' = offered \cup {post.doc}
    /\ UNCHANGED <<flash, running, pc, config, http, due, writer, acked, proven, rash, events>>

(* Variant: the answer is sent before the file is stored.                  *)
AnswerFirst ==
    /\ post.at = "parse"
    /\ FailsIn[running][post.doc] = "none"
    /\ post' = [post EXCEPT !.at = "write"]
    /\ acked' = post.doc /\ offered' = {}
    /\ UNCHANGED <<flash, running, pc, config, http, due, writer, proven, rash, events>>

(* config_reader_store(): parsed by the image that runs, before it is      *)
(* stored.  A refused file changes nothing.                                *)
ParseFirst ==
    /\ post.at = "parse"
    /\ \/ /\ FailsIn[running][post.doc] = "none"
          /\ post' = [post EXCEPT !.at = "write"]
          /\ offered' = offered \cup {post.doc}
       \/ /\ FailsIn[running][post.doc] # "none"
          /\ post' = NoPost
          /\ UNCHANGED offered
    /\ UNCHANGED <<flash, running, pc, config, http, due, writer, acked, proven, rash, events>>

(* config_store_write(): the file is replaced, or the write fails.         *)
config_store_write ==
    /\ post.at = "write"
    /\ \/ /\ file' = post.doc /\ writer' = running
          /\ post' = [post EXCEPT !.at = "respond"]
          /\ UNCHANGED events
       \/ /\ Event
          /\ post' = NoPost
          /\ UNCHANGED <<file, writer>>
    /\ UNCHANGED <<otadata, running, pc, config, http, due, acked, offered, proven, rash>>

(* The answer goes out, and the restart follows it by 750 ms, during which *)
(* the next request may come in.                                           *)
Respond ==
    /\ post.at = "respond"
    /\ acked' = post.doc /\ offered' = {}
    /\ post' = NoPost
    /\ due' = TRUE
    /\ UNCHANGED <<flash, running, pc, config, http, writer, proven, rash, events>>

(* The update endpoint of the component ota writes the other slot, selects *)
(* it and restarts; it refuses while the running image is on trial.        *)
OtaUpload ==
    /\ Serving
    /\ otadata.state = "valid" /\ otadata.active = running
    /\ Event
    /\ \E image \in Images \ {running} :
          otadata' = [active |-> image, previous |-> running, state |-> "new"]
    /\ due' = TRUE
    /\ proven' = proven \ {otadata'.active}
    /\ UNCHANGED <<file, running, pc, config, http, post, writer, acked, offered, rash>>

-----------------------------------------------------------------------------
Startup ==
    \/ Bootloader
    \/ \E p \in {"output", "shell", "services", "wifi", "status"} : BringUp(p)
    \/ Crash
    \/ config_reader_load \/ StartHttp \/ Confirm

Requests == ParseFirst \/ config_store_write \/ Respond

Next ==
    \/ Startup \/ Formatted
    \/ PowerCut \/ RestartDue
    \/ cmd_sys_restart \/ cmd_sys_confirm \/ cmd_sys_rollback
    \/ handle_config_post \/ Requests
    \/ OtaUpload

Spec == Init /\ [][Next]_vars

(* app_main() goes on, the server answers, and a timer that is set fires.  *)
FairSpec == Spec /\ WF_vars(Startup) /\ WF_vars(Requests) /\ WF_vars(RestartDue)

-----------------------------------------------------------------------------
(* Properties                                                              *)

(* main.c:138: "an image that crashes during start-up never reaches this   *)
(* line and undoes itself".  Whatever cuts and commands come in between,   *)
(* an image the bootloader holds for good has come up at least once since  *)
(* it was uploaded, or the user vouched for it; so has the one it would go *)
(* back to.                                                                *)
ConfirmedHasStarted ==
    /\ otadata.state = "valid" => otadata.active \in proven
    /\ otadata.state # "valid" => otadata.previous \in proven
    /\ otadata.previous # NoImage => otadata.previous \in proven

(* config_reader.c:165: "A configuration that will not load must not be    *)
(* allowed to replace one that does".  The stored file is the one the user *)
(* was told of, or one that was accepted since; and a boot of the image    *)
(* that accepted it has every section of it.                               *)
StoredIsAckedAndLoads ==
    /\ file \in {acked} \cup offered
    /\ config.by = running => \A p \in Parts : config.parts[p] = "parsed"

(* Once the events are over the device is up, with the factory image if    *)
(* need be: no stored file, no failing section and no image on trial can   *)
(* keep it down, unless the user confirmed an image that cannot come up.  *)
ComesUp == pc # "ready" ~> pc = "ready" \/ rash
=============================================================================
