------------------------- MODULE SessionHost_proofs -------------------------
(* Over any number of sessions, for every margin bound and every set of
   environments: the guest runs patched code only in a wide session, at its
   own margin, agreed with this match's peer; and the process implements
   GuestImage. *)
EXTENDS SessionHost, WsPatch_lemmas

(* Every member of Environments has the fields the actions read. *)
LEMMA EnvironmentFields ==
  ASSUME NEW e \in Environments
  PROVE  /\ e.override \in Peers /\ e.killed \in BOOLEAN /\ e.scripted \in BOOLEAN
         /\ e.mods \in BOOLEAN /\ e.rom \in Images /\ e.rom # NoImage
  BY EnvironmentsAssumption, SMT

(* A pinned width is a margin. *)
LEMMA SessionMarginType ==
  ASSUME env \in Environments, NEW wide \in BOOLEAN, NEW pin \in Peers,
         NEW window \in Margins
  PROVE  /\ SessionMargin(wide, pin, window) \in Margins
         /\ SessionMargin(wide, pin, window) > 0 => wide
<1>1. env.override \in Peers
  BY EnvironmentFields
<1>2. QED
  BY <1>1, WsPatchAssumption, SMT
     DEF SessionMargin, Clamp, Margins, Peers, NoPeer

(* What no step but those of the patch needs: who armed a match, whose caps
   are held, and in which stages a link or a return request can exist. *)
Control ==
  /\ pending => launch.net /\ pc \in { "reset", "init", "activate", "pin", "connect", "exit" }
  /\ launch.net => caps = launch.caps
  /\ pc \in { "opening", "launcher", "reset", "init", "activate", "pin", "connect" }
       => ~link
  /\ link => launch.net \/ env.scripted
  /\ returnReq => pc \in { "frames", "teardown", "after", "exit" }
  /\ pc = "opening" => room # "automatch" /\ (returnToList => room = "none")
  /\ pc \notin { "opening", "exit" } => ~returnToList
  /\ pc # "pin" => (wsExtra > 0 => wsEnabled)

(* What each stage may find at the patch site and in the books. *)
Image ==
  /\ Sound(patch)
  /\ pc \in { "opening", "launcher", "reset", "init", "after" } => patch.rom = NoImage
  /\ pc \in Booting \union { "init" } => ~patch.armed
  /\ pc \in Booting => patch.rom = env.rom
  /\ pc = "arm" => patch.netActive = link /\ patch.netPeer = caps
  /\ pc \in AfterArm => /\ patch.rom # NoImage
                        /\ patch.rom > 0 <=> patch.applied
  /\ patch.rom > 0 => /\ pc \in AfterArm \union { "exit" }
                      /\ patch.rom = wsExtra
                      /\ env.rom = Vanilla /\ ~env.killed
                      /\ link /\ launch.net => launch.caps = patch.rom

-----------------------------------------------------------------------------
LEMMA InitHolds == Init => TypeOK /\ Control /\ Image
<1> SUFFICES ASSUME Init
             PROVE  TypeOK /\ Control /\ Image
  OBVIOUS
<1>1. env \in Environments /\ NoImage \in Images /\ NoPeer \in Peers /\ 0 \in Margins
  BY WsPatchAssumption, SMT DEF Init, Images, Peers, NoPeer, Margins
<1>2. patch \in Patches /\ Sound(patch) /\ patch.rom = NoImage
  BY <1>1, UnarmedFacts, SMT DEF Init
<1>3. sel \in BOOLEAN
  BY <1>1, EnvironmentFields, Zenon DEF Init
<1>4. launch \in Launches /\ ~launch.net
  BY <1>1, SMT DEF Init, Launches, Offline
<1>5. TypeOK
  BY <1>1, <1>2, <1>3, <1>4, Zenon DEF Init, TypeOK, Stages
<1>6. Control
  BY <1>4, SMT DEF Init, Control
<1>7. Image
  BY <1>2, SMT DEF Init, Image, Booting, AfterArm, NoImage
<1>8. QED
  BY <1>5, <1>6, <1>7

LEMMA TypeStep ==
  ASSUME TypeOK, Sound(patch), [Next]_vars,
         pc \in Booting => ~patch.armed
  PROVE  TypeOK'
<1> USE DEF TypeOK, Stages
<1>1. CASE OpenLauncher
  BY <1>1, Zenon DEF OpenLauncher
<1>2. CASE ToggleWidescreen
  BY <1>2, SMT DEF ToggleWidescreen
<1>3. CASE ChangeRoom
  BY <1>3, SMT DEF ChangeRoom
<1>4. CASE LaunchMatch
  <2>1. PICK peer \in Peers : caps' = peer /\ launch' = [ net |-> TRUE, caps |-> peer ]
    BY <1>4, Zenon DEF LaunchMatch
  <2>2. launch' \in Launches
    BY <2>1, SMT DEF Launches
  <2>3. QED
    BY <1>4, <2>1, <2>2, SMT DEF LaunchMatch
<1>5. CASE LaunchOffline
  <2>1. Offline \in Launches
    BY WsPatchAssumption, SMT DEF Offline, Launches, Peers, NoPeer
  <2>2. QED
    BY <1>5, <2>1, SMT DEF LaunchOffline
<1>6. CASE LeaveLauncher
  BY <1>6, SMT DEF LeaveLauncher
<1>7. CASE SetupFails
  BY <1>7, SMT DEF SetupFails
<1>8. CASE ResetSession
  <2>1. patch' \in Patches
    BY <1>8, DisarmedFacts, SMT DEF ResetSession
  <2>2. QED
    BY <1>8, <2>1, SMT DEF ResetSession
<1>9. CASE InitMachine
  <2>1. env.rom \in Images
    BY EnvironmentFields, SMT
  <2>2. patch' \in Patches
    BY <1>9, <2>1, ImageFacts, SMT DEF InitMachine
  <2>3. QED
    BY <1>9, <2>2, SMT DEF InitMachine
<1>10. CASE ActivatePlugins
  <2>1. patch' \in Patches
    BY <1>10, DisarmedFacts, SMT DEF ActivatePlugins
  <2>2. QED
    BY <1>10, <2>1, SMT DEF ActivatePlugins
<1>11. CASE PinMargin
  <2>1. netPin' \in Peers
    BY <1>11, WsPatchAssumption, SMT DEF PinMargin, Peers, NoPeer
  <2>2. wsExtra' \in Margins
    BY <1>11, <2>1, SessionMarginType, SMT DEF PinMargin
  <2>3. QED
    BY <1>11, <2>1, <2>2, SMT DEF PinMargin
<1>12. CASE Connect
  <2>1. env.scripted \in BOOLEAN
    BY EnvironmentFields, SMT
  <2>2. PICK ok \in BOOLEAN :
               active' = ok /\ link' = (link \/ ok) /\ patch' = WithNetplay(patch, ok, caps)
    BY <1>12, <2>1, Zenon DEF Connect
  <2>3. patch' \in Patches
    BY <2>2, WithNetplayFacts, SMT
  <2>4. QED
    BY <1>12, <2>2, <2>3, Zenon DEF Connect
<1>13. CASE ArmPatch
  <2>1. env.killed \in BOOLEAN
    BY EnvironmentFields, SMT
  <2>2. patch' \in Patches
    <3>1. (wsExtra # 0) \in BOOLEAN
      OBVIOUS
    <3>2. Armed(patch, wsExtra, wsExtra # 0, env.killed) \in Patches
      BY <2>1, <3>1, ArmedFacts, Zenon
    <3>3. QED
      BY <1>13, <3>2, Zenon DEF ArmPatch
  <2>3. QED
    BY <1>13, <2>2, SMT DEF ArmPatch
<1>14. CASE OpenVideo
  BY <1>14, SMT DEF OpenVideo
<1>15. CASE PeerLeaves
  BY <1>15, SMT DEF PeerLeaves
<1>16. CASE SeesReturnRequest
  BY <1>16, SMT DEF SeesReturnRequest, LeaveFrames
<1>17. CASE UserCloses
  BY <1>17, SMT DEF UserCloses, LeaveFrames
<1>18. CASE ExitAtFrame
  BY <1>18, SMT DEF ExitAtFrame, LeaveFrames
<1>19. CASE Teardown
  <2>1. NoImage \in Images
    BY DEF Images
  <2>2. patch' \in Patches
    BY <1>19, <2>1, ImageFacts, SMT DEF Teardown
  <2>3. QED
    BY <1>19, <2>2, SMT DEF Teardown
<1>20. CASE SoftReturn
  BY <1>20, Zenon DEF SoftReturn
<1>21. CASE Finish
  BY <1>21, SMT DEF Finish
<1>22. CASE UNCHANGED vars
  BY <1>22, SMT DEF vars
<1>23. QED
  BY <1>1, <1>2, <1>3, <1>4, <1>5, <1>6, <1>7, <1>8, <1>9, <1>10, <1>11,
     <1>12, <1>13, <1>14, <1>15, <1>16, <1>17, <1>18, <1>19, <1>20, <1>21,
     <1>22
     DEF Next, Player, Playing, Process, Setup, Exited

LEMMA ControlStep ==
  ASSUME TypeOK, Control, [Next]_vars
  PROVE  Control'
<1> USE DEF Control
<1>1. CASE OpenLauncher
  BY <1>1, SMT DEF OpenLauncher, TypeOK
<1>2. CASE ToggleWidescreen
  BY <1>2, SMT DEF ToggleWidescreen, TypeOK
<1>3. CASE ChangeRoom
  BY <1>3, SMT DEF ChangeRoom, TypeOK
<1>4. CASE LaunchMatch
  <2>1. PICK peer \in Peers : caps' = peer /\ launch' = [ net |-> TRUE, caps |-> peer ]
    BY <1>4, Zenon DEF LaunchMatch
  <2>2. QED
    BY <1>4, <2>1, SMT DEF LaunchMatch, TypeOK
<1>5. CASE LaunchOffline
  BY <1>5, SMT DEF LaunchOffline, Offline, TypeOK
<1>6. CASE LeaveLauncher
  BY <1>6, SMT DEF LeaveLauncher, TypeOK
<1>7. CASE SetupFails
  BY <1>7, SMT DEF SetupFails, TypeOK
<1>8. CASE ResetSession
  BY <1>8, SMT DEF ResetSession, TypeOK
<1>9. CASE InitMachine
  BY <1>9, SMT DEF InitMachine, TypeOK
<1>10. CASE ActivatePlugins
  BY <1>10, SMT DEF ActivatePlugins, TypeOK
<1>11. CASE PinMargin
  <2>1. netPin' \in Peers
    BY <1>11, WsPatchAssumption, SMT DEF PinMargin, TypeOK, Peers, NoPeer
  <2>2. wsExtra' > 0 => wsEnabled
    BY <1>11, <2>1, SessionMarginType, SMT DEF PinMargin, TypeOK
  <2>3. QED
    BY <1>11, <2>2, SMT DEF PinMargin, TypeOK
<1>12. CASE Connect
  <2>1. PICK ok \in BOOLEAN : /\ ok => pending \/ env.scripted
                              /\ link' = (link \/ ok)
    BY <1>12, EnvironmentFields, Zenon DEF Connect, TypeOK
  <2>2. QED
    BY <1>12, <2>1, SMT DEF Connect, TypeOK
<1>13. CASE ArmPatch
  BY <1>13, SMT DEF ArmPatch, TypeOK
<1>14. CASE OpenVideo
  BY <1>14, SMT DEF OpenVideo, TypeOK
<1>15. CASE PeerLeaves
  BY <1>15, SMT DEF PeerLeaves, TypeOK
<1>16. CASE SeesReturnRequest
  BY <1>16, SMT DEF SeesReturnRequest, LeaveFrames, TypeOK
<1>17. CASE UserCloses
  BY <1>17, SMT DEF UserCloses, LeaveFrames, TypeOK
<1>18. CASE ExitAtFrame
  BY <1>18, SMT DEF ExitAtFrame, LeaveFrames, TypeOK
<1>19. CASE Teardown
  BY <1>19, SMT DEF Teardown, TypeOK
<1>20. CASE SoftReturn
  BY <1>20, SMT DEF SoftReturn, TypeOK
<1>21. CASE Finish
  BY <1>21, SMT DEF Finish, TypeOK
<1>22. CASE UNCHANGED vars
  BY <1>22, SMT DEF vars, TypeOK
<1>23. QED
  BY <1>1, <1>2, <1>3, <1>4, <1>5, <1>6, <1>7, <1>8, <1>9, <1>10, <1>11,
     <1>12, <1>13, <1>14, <1>15, <1>16, <1>17, <1>18, <1>19, <1>20, <1>21,
     <1>22
     DEF Next, Player, Playing, Process, Setup, Exited

LEMMA ImageStep ==
  ASSUME TypeOK, Control, Image, [Next]_vars
  PROVE  Image'
<1>e. env.rom \in Images /\ env.rom # NoImage /\ env.rom \in Int /\ env.rom <= 0
  BY EnvironmentFields, SMT DEF TypeOK, Images, NoImage, Short, Foreign, Vanilla
<1>p. patch \in Patches /\ Sound(patch)
  BY SMT DEF TypeOK, Image
<1>1. CASE OpenLauncher
  BY <1>1, SMT DEF OpenLauncher, Image, Booting, AfterArm
<1>2. CASE ToggleWidescreen
  BY <1>2, SMT DEF ToggleWidescreen, Image, Booting, AfterArm
<1>3. CASE ChangeRoom
  BY <1>3, SMT DEF ChangeRoom, Image, Booting, AfterArm
<1>4. CASE LaunchMatch
  BY <1>4, SMT DEF LaunchMatch, NoImage, Image, Booting, AfterArm
<1>5. CASE LaunchOffline
  BY <1>5, SMT DEF LaunchOffline, NoImage, Image, Booting, AfterArm
<1>6. CASE LeaveLauncher
  BY <1>6, SMT DEF LeaveLauncher, Image, Booting, AfterArm
<1>7. CASE SetupFails
  BY <1>7, SMT DEF SetupFails, Image, Booting, AfterArm
<1>8. CASE ResetSession
  <2>1. /\ Sound(patch') /\ ~patch'.armed /\ patch'.rom = NoImage
    BY <1>8, <1>p, DisarmedFacts, SMT DEF ResetSession, NoImage, Image, Booting, AfterArm
  <2>2. QED
    BY <1>8, <2>1, SMT DEF ResetSession, NoImage, Image, Booting, AfterArm
<1>9. CASE InitMachine
  <2>1. Sound(patch') /\ patch'.rom = env.rom /\ patch'.armed = patch.armed
    BY <1>9, <1>e, <1>p, ImageFacts, SMT DEF InitMachine, Image, Booting, AfterArm
  <2>2. ~patch'.armed
    BY <1>9, <2>1, Zenon DEF InitMachine, Image
  <2>3. QED
    BY <1>9, <1>e, <2>1, <2>2, SMT DEF InitMachine, Image, Booting, AfterArm
<1>10. CASE ActivatePlugins
  <2>1. Sound(patch') /\ patch'.rom = env.rom /\ ~patch'.armed
    BY <1>10, <1>e, <1>p, DisarmedFacts, SMT DEF ActivatePlugins, Image, Booting, AfterArm
  <2>2. QED
    BY <1>10, <1>e, <2>1, SMT DEF ActivatePlugins, Image, Booting, AfterArm
<1>11. CASE PinMargin
  BY <1>11, <1>e, SMT DEF PinMargin, Image, Booting, AfterArm
<1>12. CASE Connect
  <2>1. env.scripted \in BOOLEAN /\ ~link
    BY <1>12, EnvironmentFields, Zenon DEF Connect, TypeOK, Control
  <2>2. PICK ok \in BOOLEAN :
               active' = ok /\ link' = (link \/ ok) /\ patch' = WithNetplay(patch, ok, caps)
    BY <1>12, <2>1, Zenon DEF Connect, TypeOK
  <2>3. /\ Sound(patch') /\ patch'.rom = env.rom /\ patch'.armed = patch.armed
        /\ patch'.netActive = ok /\ patch'.netPeer = caps
    <3> DEFINE q == WithNetplay(patch, ok, caps)
    <3>0. caps \in Peers
      BY DEF TypeOK
    <3>1. /\ Sound(q) /\ q.rom = patch.rom /\ q.armed = patch.armed
          /\ q.netActive = ok /\ q.netPeer = caps
      BY <1>p, <2>2, <3>0, WithNetplayFacts, SMT
    <3> HIDE DEF q
    <3>2. patch' = q
      BY <2>2 DEF q
    <3>3. patch.rom = env.rom
      BY <1>12, SMT DEF Connect, Image, Booting, AfterArm
    <3>4. QED
      BY <3>1, <3>2, <3>3, SMT
  <2>4. link' = ok
    BY <2>1, <2>2, Zenon
  <2>5. QED
    BY <1>12, <1>e, <2>3, <2>4, SMT DEF Connect, Image, Booting, AfterArm
<1>13. CASE ArmPatch
  <2> DEFINE wide == wsExtra # 0
  <2> DEFINE q == Armed(patch, wsExtra, wide, env.killed)
  <2>0. wide \in BOOLEAN
    OBVIOUS
  <2>1. /\ env.killed \in BOOLEAN /\ wsExtra \in Margins
        /\ ~patch.armed /\ patch.rom = env.rom
    BY <1>13, EnvironmentFields, Zenon DEF ArmPatch, TypeOK, Image, Booting
  <2> HIDE DEF wide
  <2>2. /\ q \in Patches /\ Sound(q)
        /\ q.rom # patch.rom => /\ q.rom = wsExtra /\ wsExtra > 0 /\ wide
                                /\ patch.rom = Vanilla /\ ~env.killed
                                /\ NetplayAllows(patch, wsExtra)
        /\ q.rom > 0 <=> q.applied
    BY <1>p, <2>0, <2>1, ArmedFromCleanSlate, SMT
  <2> HIDE DEF q
  <2>3. patch' = q
    BY <1>13, Zenon DEF ArmPatch, q, wide
  <2>4. patch.netActive = link /\ patch.netPeer = caps
    BY <1>13, SMT DEF ArmPatch, Image, Booting, AfterArm
  <2>5. q.rom # NoImage
    BY <1>e, <2>1, <2>2, SMT DEF NoImage, TypeOK, Margins
  <2>6. q.rom > 0 => /\ q.rom = wsExtra /\ env.rom = Vanilla /\ ~env.killed
                     /\ link /\ launch.net => launch.caps = q.rom
    <3>1. ASSUME q.rom > 0
          PROVE  q.rom # patch.rom
      BY <1>e, <2>1, <3>1, SMT
    <3>2. NetplayAllows(patch, wsExtra) /\ link /\ launch.net => launch.caps = wsExtra
      BY <2>4, Zenon DEF NetplayAllows, Control
    <3>3. QED
      BY <2>1, <2>2, <3>1, <3>2, SMT
  <2>7. QED
    BY <1>13, <2>2, <2>3, <2>5, <2>6, SMT DEF ArmPatch, Image, Booting, AfterArm
<1>14. CASE OpenVideo
  BY <1>14, SMT DEF OpenVideo, Image, Booting, AfterArm
<1>15. CASE PeerLeaves
  BY <1>15, SMT DEF PeerLeaves, Image, Booting, AfterArm
<1>16. CASE SeesReturnRequest
  BY <1>16, SMT DEF SeesReturnRequest, LeaveFrames, Image, Booting, AfterArm
<1>17. CASE UserCloses
  BY <1>17, SMT DEF UserCloses, LeaveFrames, Image, Booting, AfterArm
<1>18. CASE ExitAtFrame
  BY <1>18, SMT DEF ExitAtFrame, LeaveFrames, Image, Booting, AfterArm
<1>19. CASE Teardown
  <2>1. NoImage \in Images
    BY DEF Images
  <2>2. Sound(patch') /\ patch'.rom = NoImage
    BY <1>19, <1>p, <2>1, ImageFacts, SMT DEF Teardown, Image, Booting, AfterArm
  <2>3. QED
    BY <1>19, <2>2, SMT DEF Teardown, NoImage, Image, Booting, AfterArm
<1>20. CASE SoftReturn
  BY <1>20, SMT DEF SoftReturn, Image, Booting, AfterArm
<1>21. CASE Finish
  BY <1>21, SMT DEF Finish, Image, Booting, AfterArm
<1>22. CASE UNCHANGED vars
  BY <1>22, SMT DEF vars, Image, Booting, AfterArm
<1>23. QED
  BY <1>1, <1>2, <1>3, <1>4, <1>5, <1>6, <1>7, <1>8, <1>9, <1>10, <1>11,
     <1>12, <1>13, <1>14, <1>15, <1>16, <1>17, <1>18, <1>19, <1>20, <1>21,
     <1>22
     DEF Next, Player, Playing, Process, Setup, Exited

LEMMA Invariant == Spec => [](TypeOK /\ Control /\ Image)
<1>1. TypeOK /\ Control /\ Image /\ [Next]_vars => (TypeOK /\ Control /\ Image)'
  <2> SUFFICES ASSUME TypeOK, Control, Image, [Next]_vars
               PROVE  TypeOK' /\ Control' /\ Image'
    BY Zenon
  <2>1. Sound(patch) /\ (pc \in Booting => ~patch.armed)
    BY Zenon DEF Image
  <2>2. QED
    BY <2>1, TypeStep, ControlStep, ImageStep, Zenon
<1>2. QED
  BY <1>1, InitHolds, PTL DEF Spec

-----------------------------------------------------------------------------
(* Type correctness. *)
THEOREM TypeCorrect == Spec => []TypeOK
  BY Invariant, PTL

(* Guest code is patched only in a wide session, at its pinned margin, over a
   recognised image, with no switch against it. *)
THEOREM OnlyWideSessionsPatch == Spec => []PatchedOnlyWide
<1>1. TypeOK /\ Control /\ Image => PatchedOnlyWide
  <2> SUFFICES ASSUME TypeOK, Control, Image, Patched
               PROVE  /\ pc \in AfterArm \union { "exit" } /\ wsEnabled
                      /\ patch.rom = wsExtra /\ env.rom = Vanilla /\ ~env.killed
    BY Zenon DEF PatchedOnlyWide
  <2>1. /\ pc \in AfterArm \union { "exit" } /\ patch.rom = wsExtra
        /\ env.rom = Vanilla /\ ~env.killed
    BY Zenon DEF Image, Patched
  <2>2. wsExtra > 0 /\ pc # "pin"
    BY <2>1, SMT DEF AfterArm, Patched
  <2>3. QED
    BY <2>1, <2>2, Zenon DEF Control
<1>2. QED
  BY <1>1, Invariant, PTL

(* In a lobby match, patched means agreed, over any sequence of matches. *)
THEOREM MatchesAgree == Spec => []PatchAgreedWithThisMatch
<1>1. Image => PatchAgreedWithThisMatch
  BY Zenon DEF Image, Patched, PatchAgreedWithThisMatch
<1>2. QED
  BY <1>1, Invariant, PTL

(* While a session plays the books describe the running image. *)
THEOREM BooksDescribeImage == Spec => []BooksMatchImage
<1>1. Image => BooksMatchImage
  BY Zenon DEF Image, Sound, Patched, BooksMatchImage
<1>2. QED
  BY <1>1, Invariant, PTL

(* Every session arms from a clean slate. *)
THEOREM CleanSlate == Spec => []ArmsFromCleanSlate
<1>1. ASSUME TypeOK, Image
      PROVE  ArmsFromCleanSlate
  <2> SUFFICES ASSUME pc \in Booting
               PROVE  ~patch.armed /\ ~patch.applied /\ ~Patched
    BY Zenon DEF ArmsFromCleanSlate
  <2>1. Sound(patch) /\ ~patch.armed
    BY <1>1, Zenon DEF Image
  <2>2. QED
    BY <2>1, Zenon DEF Sound, Patched
<1>2. QED
  BY <1>1, Invariant, PTL

(* One link at a time, and only where one was asked for. *)
THEOREM LinksAreAskedFor == Spec => []OneLinkAtATime
<1>1. Control => OneLinkAtATime
  BY Zenon DEF Control, OneLinkAtATime
<1>2. QED
  BY <1>1, Invariant, PTL

(* No return request survives into the next session. *)
THEOREM ReturnsAreAnswered == Spec => []NoLatchedReturn
<1>1. Control => NoLatchedReturn
  BY Zenon DEF Control, NoLatchedReturn
<1>2. QED
  BY <1>1, Invariant, PTL

(* The landing page and the seat agree. *)
THEOREM SeatsAreGivenUp == Spec => []SeatMatchesLanding
<1>1. Control => SeatMatchesLanding
  BY Zenon DEF Control, SeatMatchesLanding
<1>2. QED
  BY <1>1, Invariant, PTL

-----------------------------------------------------------------------------
(* The refinement of GuestImage. *)
OffStages == { "opening", "launcher", "reset", "init", "after", "exit" }

(* In which stages the machine is off, booting and running. *)
LEMMA MachineStages ==
  ASSUME TypeOK, Image
  PROVE  /\ pc \in OffStages => Machine = "off"
         /\ pc \in Booting   => Machine = "booting"
         /\ pc \in AfterArm  => Machine = "running"
<1>1. pc \in Booting => patch.rom # NoImage
  BY EnvironmentFields, SMT DEF TypeOK, Image
<1>2. QED
  BY <1>1, SMT DEF Image, Machine, OffStages, Booting, AfterArm

LEMMA RefinedStep ==
  ASSUME TypeOK, Image, TypeOK', Image', [Next]_vars,
         pc \in OffStages => Machine = "off",
         pc \in Booting   => Machine = "booting",
         pc \in AfterArm  => Machine = "running",
         pc' \in OffStages => Machine' = "off",
         pc' \in Booting   => Machine' = "booting",
         pc' \in AfterArm  => Machine' = "running"
  PROVE  [Guest!Next]_Guest!vars
<1>1. CASE OpenLauncher
  <2>1. pc \in OffStages /\ pc' \in OffStages
    BY <1>1, SMT DEF OpenLauncher, OffStages
  <2>2. QED
    BY <2>1, Zenon DEF Guest!vars, GuestClip, GuestMargin, GuestPeer
<1>2. CASE ToggleWidescreen
  <2>1. pc \in OffStages /\ pc' \in OffStages
    BY <1>2, SMT DEF ToggleWidescreen, OffStages
  <2>2. QED
    BY <2>1, Zenon DEF Guest!vars, GuestClip, GuestMargin, GuestPeer
<1>3. CASE ChangeRoom
  <2>1. pc \in OffStages /\ pc' \in OffStages
    BY <1>3, SMT DEF ChangeRoom, OffStages
  <2>2. QED
    BY <2>1, Zenon DEF Guest!vars, GuestClip, GuestMargin, GuestPeer
<1>4. CASE LaunchMatch
  <2>1. pc \in OffStages /\ pc' \in OffStages
    BY <1>4, SMT DEF LaunchMatch, OffStages
  <2>2. QED
    BY <2>1, Zenon DEF Guest!vars, GuestClip, GuestMargin, GuestPeer
<1>5. CASE LaunchOffline
  <2>1. pc \in OffStages /\ pc' \in OffStages
    BY <1>5, SMT DEF LaunchOffline, OffStages
  <2>2. QED
    BY <2>1, Zenon DEF Guest!vars, GuestClip, GuestMargin, GuestPeer
<1>6. CASE LeaveLauncher
  <2>1. pc \in OffStages /\ pc' \in OffStages
    BY <1>6, SMT DEF LeaveLauncher, OffStages
  <2>2. QED
    BY <2>1, Zenon DEF Guest!vars, GuestClip, GuestMargin, GuestPeer
<1>7. CASE SetupFails
  <2>1. pc' \in OffStages /\ (pc \in OffStages \/ pc \in AfterArm)
    BY <1>7, SMT DEF SetupFails, OffStages, AfterArm
  <2>2. Machine' = "off" /\ Machine \in { "off", "running" }
    BY <2>1, Zenon
  <2>3. QED
    BY <2>2, SMT DEF Guest!Next, Guest!PowerOff, Guest!Off, Guest!vars, GuestClip,
                     GuestMargin, GuestPeer
<1>8. CASE ResetSession
  <2>1. pc \in OffStages /\ pc' \in OffStages
    BY <1>8, SMT DEF ResetSession, OffStages
  <2>2. QED
    BY <2>1, Zenon DEF Guest!vars, GuestClip, GuestMargin, GuestPeer
<1>9. CASE InitMachine
  <2>1. pc \in OffStages /\ pc' \in Booting
    BY <1>9, SMT DEF InitMachine, OffStages, Booting
  <2>2. Machine = "off" /\ Machine' = "booting"
    BY <2>1, Zenon
  <2>3. QED
    BY <2>2, SMT DEF Guest!Next, Guest!PowerOn, Guest!Off, GuestClip, GuestMargin,
                     GuestPeer
<1>10. CASE ActivatePlugins
  <2>1. pc \in Booting /\ pc' \in Booting
    BY <1>10, SMT DEF ActivatePlugins, Booting
  <2>2. Machine = "booting" /\ Machine' = "booting"
    BY <2>1, Zenon
  <2>3. QED
    BY <2>2, SMT DEF Guest!vars, GuestClip, GuestMargin, GuestPeer
<1>11. CASE PinMargin
  <2>1. pc \in Booting /\ pc' \in Booting
    BY <1>11, SMT DEF PinMargin, Booting
  <2>2. Machine = "booting" /\ Machine' = "booting"
    BY <2>1, Zenon
  <2>3. QED
    BY <2>2, SMT DEF Guest!vars, GuestClip, GuestMargin, GuestPeer
<1>12. CASE Connect
  <2>1. pc \in Booting /\ pc' \in Booting
    BY <1>12, SMT DEF Connect, Booting
  <2>2. Machine = "booting" /\ Machine' = "booting"
    BY <2>1, Zenon
  <2>3. QED
    BY <2>2, SMT DEF Guest!vars, GuestClip, GuestMargin, GuestPeer
<1>13. CASE ArmPatch
  <2>1. pc \in Booting /\ pc' \in AfterArm /\ UNCHANGED << wsExtra, link, launch >>
    BY <1>13, SMT DEF ArmPatch, Booting, AfterArm
  <2>2. Machine = "booting" /\ Machine' = "running"
    BY <2>1, Zenon
  <2>3. GuestMargin' = wsExtra /\ wsExtra \in 0 .. WsExtraMax
    BY <2>1, <2>2, SMT DEF GuestMargin, TypeOK, Margins
  <2>4. GuestPeer' \in -1 .. WsExtraMax + 1 \union { NoMatch }
    BY <2>1, <2>2, SMT DEF GuestPeer, TypeOK, Launches, Peers, NoPeer
  <2>5. \/ GuestClip' = 0
        \/ GuestClip' = GuestMargin' /\ GuestPeer' \in { NoMatch, GuestMargin' }
    <3>1. CASE ~Patched'
      BY <2>2, <3>1, SMT DEF GuestClip
    <3>2. CASE Patched'
      <4>1. GuestClip' = patch'.rom /\ patch'.rom = wsExtra
        BY <2>1, <2>2, <3>2, SMT DEF GuestClip, Image, Patched
      <4>2. (link /\ launch.net)' => launch'.caps = wsExtra
        BY <2>1, <3>2, <4>1, SMT DEF Image, Patched
      <4>3. GuestPeer' \in { NoMatch, wsExtra }
        BY <2>2, <4>2, SMT DEF GuestPeer
      <4>4. QED
        BY <2>3, <4>1, <4>3, SMT
    <3>3. QED
      BY <3>1, <3>2
  <2>6. Guest!Run
    BY <2>2, <2>3, <2>4, <2>5, SMT DEF Guest!Run
  <2>7. QED
    BY <2>6 DEF Guest!Next
<1>14. CASE OpenVideo
  <2>1. /\ pc \in AfterArm /\ pc' \in AfterArm
        /\ UNCHANGED << patch, wsExtra, link, launch >>
    BY <1>14, SMT DEF OpenVideo, AfterArm
  <2>2. Machine = "running" /\ Machine' = "running"
    BY <2>1, Zenon
  <2>3. QED
    BY <2>1, <2>2, SMT DEF Guest!vars, GuestClip, GuestMargin, GuestPeer, Patched
<1>15. CASE PeerLeaves
  <2>1. /\ pc \in AfterArm /\ pc' \in AfterArm
        /\ UNCHANGED << patch, wsExtra, link, launch >>
    BY <1>15, SMT DEF PeerLeaves, AfterArm
  <2>2. Machine = "running" /\ Machine' = "running"
    BY <2>1, Zenon
  <2>3. QED
    BY <2>1, <2>2, SMT DEF Guest!vars, GuestClip, GuestMargin, GuestPeer, Patched
<1>16. CASE SeesReturnRequest
  <2>1. /\ pc \in AfterArm /\ pc' \in AfterArm
        /\ UNCHANGED << patch, wsExtra, link, launch >>
    BY <1>16, SMT DEF SeesReturnRequest, LeaveFrames, AfterArm
  <2>2. Machine = "running" /\ Machine' = "running"
    BY <2>1, Zenon
  <2>3. QED
    BY <2>1, <2>2, SMT DEF Guest!vars, GuestClip, GuestMargin, GuestPeer, Patched
<1>17. CASE UserCloses
  <2>1. /\ pc \in AfterArm /\ pc' \in AfterArm
        /\ UNCHANGED << patch, wsExtra, link, launch >>
    BY <1>17, SMT DEF UserCloses, LeaveFrames, AfterArm
  <2>2. Machine = "running" /\ Machine' = "running"
    BY <2>1, Zenon
  <2>3. QED
    BY <2>1, <2>2, SMT DEF Guest!vars, GuestClip, GuestMargin, GuestPeer, Patched
<1>18. CASE ExitAtFrame
  <2>1. /\ pc \in AfterArm /\ pc' \in AfterArm
        /\ UNCHANGED << patch, wsExtra, link, launch >>
    BY <1>18, SMT DEF ExitAtFrame, LeaveFrames, AfterArm
  <2>2. Machine = "running" /\ Machine' = "running"
    BY <2>1, Zenon
  <2>3. QED
    BY <2>1, <2>2, SMT DEF Guest!vars, GuestClip, GuestMargin, GuestPeer, Patched
<1>19. CASE Teardown
  <2>1. pc' \in OffStages /\ pc \in AfterArm
    BY <1>19, SMT DEF Teardown, OffStages, AfterArm
  <2>2. Machine' = "off" /\ Machine = "running"
    BY <2>1, Zenon
  <2>3. QED
    BY <2>2, SMT DEF Guest!Next, Guest!PowerOff, Guest!Off, GuestClip, GuestMargin,
                     GuestPeer
<1>20. CASE SoftReturn
  <2>1. pc \in OffStages /\ pc' \in OffStages
    BY <1>20, SMT DEF SoftReturn, OffStages
  <2>2. QED
    BY <2>1, Zenon DEF Guest!vars, GuestClip, GuestMargin, GuestPeer
<1>21. CASE Finish
  <2>1. pc \in OffStages /\ pc' \in OffStages
    BY <1>21, SMT DEF Finish, OffStages
  <2>2. QED
    BY <2>1, Zenon DEF Guest!vars, GuestClip, GuestMargin, GuestPeer
<1>22. CASE UNCHANGED vars
  BY <1>22, SMT DEF vars, Guest!vars, GuestClip, GuestMargin, GuestPeer, Machine, Patched
<1>23. QED
  BY <1>1, <1>2, <1>3, <1>4, <1>5, <1>6, <1>7, <1>8, <1>9, <1>10, <1>11,
     <1>12, <1>13, <1>14, <1>15, <1>16, <1>17, <1>18, <1>19, <1>20, <1>21,
     <1>22
     DEF Next, Player, Playing, Process, Setup, Exited

(* The process implements GuestImage, whatever sequence of sessions it runs:
   initial states map to initial states and every step of main.c to a step of
   GuestImage or to none. *)
THEOREM ProcessImplementsGuestImage == Spec => ImplementsGuestImage
<1>1. Init => Guest!Init
  BY SMT DEF Init, Guest!Init, Unarmed, NoImage, Machine, GuestClip, GuestMargin,
             GuestPeer, AfterArm
<1>2. /\ TypeOK /\ Control /\ Image /\ (TypeOK /\ Control /\ Image)'
      /\ [Next]_vars
      => [Guest!Next]_Guest!vars
  <2> SUFFICES ASSUME TypeOK, Image, TypeOK', Image', [Next]_vars
               PROVE  [Guest!Next]_Guest!vars
    BY Zenon
  <2>1. /\ pc \in OffStages => Machine = "off"
        /\ pc \in Booting   => Machine = "booting"
        /\ pc \in AfterArm  => Machine = "running"
    BY MachineStages, Zenon
  <2>2. /\ pc' \in OffStages => Machine' = "off"
        /\ pc' \in Booting   => Machine' = "booting"
        /\ pc' \in AfterArm  => Machine' = "running"
    <3>1. pc' \in Booting => patch'.rom # NoImage
      BY EnvironmentFields, SMT DEF TypeOK, Image
    <3>2. QED
      BY <3>1, SMT DEF Image, Machine, OffStages, Booting, AfterArm
  <2>3. QED
    BY <2>1, <2>2, RefinedStep, Zenon
<1>3. QED
  BY <1>1, <1>2, Invariant, PTL DEF Spec, ImplementsGuestImage, Guest!Spec
=============================================================================
