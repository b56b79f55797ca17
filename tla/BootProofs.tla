----------------------------- MODULE BootProofs -----------------------------
(***************************************************************************)
(* For any number of images, files and events: an image that is not on     *)
(* trial has come up since it was uploaded or was vouched for, and the     *)
(* stored file is one that was accepted and loads on the image that        *)
(* accepted it.                                                            *)
(***************************************************************************)
EXTENDS Boot, TLAPS

(* The image on trial is the one that runs, so that confirming it says     *)
(* something about it, and there is one to go back to.                     *)
OnTrial ==
    /\ otadata.state = "pending" => running = otadata.active
    /\ otadata.state # "valid" => otadata.previous # NoImage

(* A stored file that an image checked parses for that image, and nothing  *)
(* is loaded before the step that loads it.                                *)
Checked ==
    /\ writer # NoImage => file \in Docs /\ FailsIn[writer][file] = "none"
    /\ pc \in {"bootloader", "output"} => config.by = NoImage

(* An upload is under way only after WiFi was started; a file on its way   *)
(* into the partition was accepted, and one about to be answered is in it. *)
Underway ==
    /\ post # NoPost => Linked
    /\ post.at # "none" => post.doc \in Docs
    /\ post.at = "write" =>
          post.doc \in offered /\ FailsIn[running][post.doc] = "none"
    /\ post.at = "respond" => post.doc = file

IInv == TypeOK /\ ConfirmedHasStarted /\ StoredIsAckedAndLoads
        /\ OnTrial /\ Checked /\ Underway

(* Every part of a file that parses holds its values.                      *)
LEMMA WholeFile ==
    ASSUME NEW image, NEW doc, FailsIn[image][doc] = "none"
    PROVE  \A p \in Parts : parse(image, doc)[p] = "parsed"
  BY DEF parse

LEMMA ParseTyped ==
    ASSUME NEW image, NEW doc
    PROVE  parse(image, doc) \in [Parts -> Filled]
  BY DEF parse, Filled

(* RAM after a reset.                                                      *)
LEMMA ClearedTyped ==
    Zeroed \in Configs /\ NoPost \in Posts
  <1>1. [p \in Parts |-> "zero"] \in [Parts -> Filled]
    BY DEF Filled
  <1>2. QED  BY <1>1 DEF Zeroed, NoPost, Files, Configs, Posts

LEMMA InitInv == Init => IInv
  <1> SUFFICES ASSUME Init PROVE IInv
    OBVIOUS
  <1> USE BootAssumption DEF Init
  <1>1. TypeOK
    <2>1. otadata \in Otadata
      BY DEF Otadata
    <2>2. file \in Files /\ acked \in Files /\ offered \subseteq Docs /\ pc \in Places
      BY DEF Files, Places
    <2>3. config \in Configs /\ post \in Posts
      BY ClearedTyped
    <2>4. http \in BOOLEAN /\ due \in BOOLEAN /\ rash \in BOOLEAN
      OBVIOUS
    <2>5. events \in 0 .. MaxEvents
      OBVIOUS
    <2>6. QED  BY <2>1, <2>2, <2>3, <2>4, <2>5 DEF TypeOK
  <1>2. ConfirmedHasStarted /\ StoredIsAckedAndLoads
    BY DEF ConfirmedHasStarted, StoredIsAckedAndLoads, Zeroed
  <1>3. OnTrial /\ Checked /\ Underway
    BY DEF OnTrial, Checked, Underway, Zeroed, NoPost
  <1>4. QED  BY <1>1, <1>2, <1>3 DEF IInv

(* A reset keeps everything, if the bootloader's data stay in order.       *)
LEMMA ResetInv ==
    ASSUME IInv, Reset, events' \in 0 .. MaxEvents,
           \/ UNCHANGED otadata
           \/ /\ otadata.previous # NoImage
              /\ otadata' = [active |-> otadata.previous, previous |-> NoImage,
                             state |-> "valid"]
    PROVE  IInv'
  <1> USE BootAssumption DEF IInv, Reset, history
  <1>1. TypeOK'
    <2>1. otadata' \in Otadata
      BY DEF TypeOK, Otadata
    <2>2. pc' \in Places
      BY DEF Places
    <2>3. config' \in Configs /\ post' \in Posts
      BY ClearedTyped
    <2>4. http' \in BOOLEAN /\ due' \in BOOLEAN
      OBVIOUS
    <2>5. QED  BY <2>1, <2>2, <2>3, <2>4 DEF TypeOK
  <1>2. ConfirmedHasStarted' /\ OnTrial'
    BY DEF ConfirmedHasStarted, OnTrial, TypeOK, Otadata
  <1>3. StoredIsAckedAndLoads' /\ Checked'
    BY DEF StoredIsAckedAndLoads, Checked, TypeOK, Zeroed
  <1>4. Underway'
    BY DEF Underway, NoPost
  <1>5. QED  BY <1>1, <1>2, <1>3, <1>4

LEMMA EventTyped == TypeOK /\ Event => events' \in 0 .. MaxEvents
  BY BootAssumption DEF TypeOK, Event

(* The bootloader takes an image off trial, or puts it on.                 *)
LEMMA BootloaderInv == IInv /\ Bootloader => IInv'
  <1> SUFFICES ASSUME IInv, Bootloader PROVE IInv'
    OBVIOUS
  <1> USE BootAssumption DEF IInv, Bootloader, BootSelection, history
  <1>1. otadata' \in Otadata /\ OnTrial' /\ ConfirmedHasStarted'
    BY DEF TypeOK, Otadata, OnTrial, ConfirmedHasStarted
  <1>2. running' \in Images
    BY <1>1 DEF Otadata
  <1>3. TypeOK'
    BY <1>1, <1>2 DEF TypeOK, Places
  <1>4. StoredIsAckedAndLoads' /\ Checked'
    BY <1>2 DEF StoredIsAckedAndLoads, Checked
  <1>5. Underway'
    BY DEF Underway, Linked, NoPost
  <1>6. QED  BY <1>1, <1>3, <1>4, <1>5

(* A step that sets something up only moves on.                            *)
LEMMA BringUpInv ==
    ASSUME IInv, NEW p \in {"output", "shell", "services", "wifi", "status"}, BringUp(p)
    PROVE  IInv'
  <1> USE DEF IInv, BringUp, At, flash, history
  <1>1. pc' \in Places
    BY DEF Follows, Places
  <1>2. TypeOK' /\ ConfirmedHasStarted' /\ StoredIsAckedAndLoads' /\ OnTrial'
    BY <1>1 DEF TypeOK, ConfirmedHasStarted, StoredIsAckedAndLoads, OnTrial
  <1>3. pc' \notin {"bootloader", "output"}
    BY DEF Follows
  <1>4. Checked'
    BY <1>3 DEF Checked
  <1>5. Linked => Linked'
    BY DEF Linked, Follows
  <1>6. Underway'
    BY <1>5 DEF Underway
  <1>7. QED  BY <1>2, <1>4, <1>6

(* What is loaded is whole if the image that loads it has checked it.      *)
LEMMA LoadInv == IInv /\ config_reader_load => IInv'
  <1> SUFFICES ASSUME IInv, config_reader_load PROVE IInv'
    OBVIOUS
  <1> USE BootAssumption DEF IInv, config_reader_load, At, flash, history
  <1>1. Loaded \in Configs
    <2>1. Defaults \in [Parts -> Filled] /\ parse(running, file) \in [Parts -> Filled]
      BY ParseTyped DEF Defaults, Filled
    <2>2. QED  BY <2>1 DEF Loaded, Configs, TypeOK, Files
  <1>2. config' \in Configs /\ events' \in 0 .. MaxEvents
    BY <1>1, ClearedTyped, EventTyped DEF TypeOK
  <1>3. pc' = "shell"
    BY DEF Follows
  <1>4. TypeOK'
    BY <1>2, <1>3 DEF TypeOK, Places
  <1>5. Loaded.by = running => \A p \in Parts : Loaded.parts[p] = "parsed"
    BY WholeFile DEF Loaded, Checked, TypeOK
  <1>6. StoredIsAckedAndLoads'
    BY <1>5 DEF StoredIsAckedAndLoads, Zeroed, TypeOK
  <1>7. ConfirmedHasStarted' /\ OnTrial' /\ Checked'
    BY <1>3 DEF ConfirmedHasStarted, OnTrial, Checked
  <1>8. Underway'
    BY <1>3 DEF Underway, Linked, NoPost
  <1>9. QED  BY <1>4, <1>6, <1>7, <1>8

LEMMA FormattedInv == IInv /\ Formatted => IInv'
  <1> SUFFICES ASSUME IInv, Formatted PROVE IInv'
    OBVIOUS
  <1> USE DEF IInv, Formatted, At
  <1>1. TypeOK'
    BY EventTyped DEF TypeOK, Files
  <1>2. ConfirmedHasStarted' /\ OnTrial' /\ StoredIsAckedAndLoads' /\ Checked'
    BY DEF ConfirmedHasStarted, OnTrial, StoredIsAckedAndLoads, Checked
  <1>3. Underway'
    BY DEF Underway, Linked, NoPost
  <1>4. QED  BY <1>1, <1>2, <1>3

LEMMA StartHttpInv == IInv /\ StartHttp => IInv'
  <1> SUFFICES ASSUME IInv, StartHttp PROVE IInv'
    OBVIOUS
  <1> USE DEF IInv, StartHttp, At, flash, history
  <1>1. http' \in BOOLEAN
    BY Zenon DEF Servable
  <1>2. pc' = "wifi"
    BY DEF Follows
  <1>3. TypeOK'
    BY <1>1, <1>2, EventTyped DEF TypeOK, Places
  <1>4. ConfirmedHasStarted' /\ OnTrial' /\ StoredIsAckedAndLoads' /\ Checked'
    BY <1>2 DEF ConfirmedHasStarted, OnTrial, StoredIsAckedAndLoads, Checked
  <1>5. Underway'
    BY <1>2 DEF Underway, Linked, NoPost
  <1>6. QED  BY <1>3, <1>4, <1>5

(* Confirming says something about the image that runs, since it is the    *)
(* one on trial.                                                           *)
LEMMA ConfirmInv == IInv /\ (Confirm \/ cmd_sys_confirm) => IInv'
  <1> SUFFICES ASSUME IInv, Confirm \/ cmd_sys_confirm PROVE IInv'
    OBVIOUS
  <1> USE DEF IInv, Confirm, cmd_sys_confirm, At, PendingVerify, MarkedValid
  <1>1. otadata' \in Otadata /\ proven' \subseteq Images /\ proven \subseteq proven'
    BY DEF TypeOK, Otadata
  <1>2. pc' \in Places /\ pc' \notin {"bootloader", "output"} /\ (Linked => Linked')
    BY DEF TypeOK, Places, Follows, Shell, Linked
  <1>3. rash' \in BOOLEAN
    BY Zenon DEF TypeOK
  <1>4. TypeOK'
    BY <1>1, <1>2, <1>3, EventTyped DEF TypeOK
  <1>5. ConfirmedHasStarted' /\ OnTrial'
    BY <1>1 DEF ConfirmedHasStarted, OnTrial, TypeOK, Otadata
  <1>6. StoredIsAckedAndLoads' /\ Checked'
    BY <1>2 DEF StoredIsAckedAndLoads, Checked
  <1>7. Underway'
    BY <1>2 DEF Underway
  <1>8. QED  BY <1>4, <1>5, <1>6, <1>7

LEMMA PostInv == IInv /\ (handle_config_post \/ ParseFirst) => IInv'
  <1> SUFFICES ASSUME IInv, handle_config_post \/ ParseFirst PROVE IInv'
    OBVIOUS
  <1> USE DEF IInv, handle_config_post, ParseFirst, flash, history
  <1>1. post' \in Posts /\ offered' \subseteq Docs
    BY ClearedTyped DEF TypeOK, Posts, Files, Underway
  <1>2. TypeOK'
    BY <1>1, EventTyped DEF TypeOK
  <1>3. ConfirmedHasStarted' /\ OnTrial' /\ StoredIsAckedAndLoads' /\ Checked'
    BY DEF ConfirmedHasStarted, OnTrial, StoredIsAckedAndLoads, Checked
  <1>4. Underway'
    BY DEF Underway, Linked, Serving, NoPost, TypeOK, Posts
  <1>5. QED  BY <1>2, <1>3, <1>4

LEMMA WriteInv == IInv /\ (config_store_write \/ Respond) => IInv'
  <1> SUFFICES ASSUME IInv, config_store_write \/ Respond PROVE IInv'
    OBVIOUS
  <1> USE BootAssumption DEF IInv, config_store_write, Respond, flash
  <1>1. post' \in Posts
    BY ClearedTyped DEF TypeOK, Posts
  <1>2. TypeOK'
    BY <1>1, EventTyped DEF TypeOK, Underway, Files
  <1>3. ConfirmedHasStarted' /\ OnTrial' /\ Checked'
    BY DEF ConfirmedHasStarted, OnTrial, Checked, Underway, Linked, NoPost
  <1>4. StoredIsAckedAndLoads'
    BY DEF StoredIsAckedAndLoads, Underway
  <1>5. Underway'
    BY DEF Underway, Linked, NoPost, TypeOK, Posts
  <1>6. QED  BY <1>2, <1>3, <1>4, <1>5

(* An upload makes the image that runs the one to go back to.              *)
LEMMA UploadInv == IInv /\ OtaUpload => IInv'
  <1> SUFFICES ASSUME IInv, OtaUpload PROVE IInv'
    OBVIOUS
  <1> USE BootAssumption DEF IInv, OtaUpload
  <1>1. otadata' \in Otadata /\ ConfirmedHasStarted' /\ OnTrial'
    BY DEF TypeOK, Otadata, ConfirmedHasStarted, OnTrial
  <1>2. TypeOK'
    BY <1>1, EventTyped DEF TypeOK
  <1>3. StoredIsAckedAndLoads' /\ Checked'
    BY DEF StoredIsAckedAndLoads, Checked
  <1>4. Underway'
    BY DEF Underway, Linked
  <1>5. QED  BY <1>1, <1>2, <1>3, <1>4

THEOREM BootInvariant == Spec => []IInv
  <1>1. IInv /\ [Next]_vars => IInv'
    <2> SUFFICES ASSUME IInv, [Next]_vars PROVE IInv'
      OBVIOUS
    <2>1. CASE Startup
      BY <2>1, BootloaderInv, BringUpInv, LoadInv, StartHttpInv, ConfirmInv, ResetInv
         DEF Startup, Crash, IInv, TypeOK
    <2>2. CASE PowerCut \/ RestartDue \/ cmd_sys_restart \/ cmd_sys_rollback
      BY <2>2, ResetInv, EventTyped
         DEF PowerCut, RestartDue, cmd_sys_restart, cmd_sys_rollback, IInv, TypeOK
    <2>3. CASE Formatted \/ cmd_sys_confirm \/ handle_config_post \/ Requests \/ OtaUpload
      BY <2>3, FormattedInv, ConfirmInv, PostInv, WriteInv, UploadInv DEF Requests
    <2>4. CASE UNCHANGED vars
      BY <2>4 DEF vars, flash, history, IInv, TypeOK, ConfirmedHasStarted, Linked,
                  StoredIsAckedAndLoads, OnTrial, Checked, Underway
    <2>5. QED  BY <2>1, <2>2, <2>3, <2>4 DEF Next
  <1>2. QED  BY InitInv, <1>1, PTL DEF Spec

(* The variables of the boot keep their types.                             *)
THEOREM BootTyped == Spec => []TypeOK
  <1>1. IInv => TypeOK
    BY DEF IInv
  <1>2. QED  BY <1>1, BootInvariant, PTL

(* An image off trial, and the image to go back to, have come up since     *)
(* they were uploaded, or the user vouched for them.                       *)
THEOREM BootConfirmedHasStarted == Spec => []ConfirmedHasStarted
  <1>1. IInv => ConfirmedHasStarted
    BY DEF IInv
  <1>2. QED  BY <1>1, BootInvariant, PTL

(* The stored file was acknowledged, or accepted since, and loads whole on *)
(* the image that accepted it.                                             *)
THEOREM BootStoredIsAckedAndLoads == Spec => []StoredIsAckedAndLoads
  <1>1. IInv => StoredIsAckedAndLoads
    BY DEF IInv
  <1>2. QED  BY <1>1, BootInvariant, PTL
=============================================================================
