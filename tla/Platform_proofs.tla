---------------------------- MODULE Platform_proofs ----------------------------
(***************************************************************************)
(* The parts together.  A behaviour of the instance that the runs check is *)
(* a behaviour of each of its parts, so that what is proved of every part  *)
(* alone holds of it, for every value of the constants.                    *)
(***************************************************************************)
EXTENDS MCPlatform, Accounts_proofs, TeamAccess_proofs, Browser_proofs

(* A step of one part is a step of no other.                               *)
LEMMA PartsStartAndStep ==
    /\ PlatformInit => /\ AccInit /\ TeamInit /\ DomInit /\ StrInit /\ SessInit /\ ViewInit
                       /\ WebInit /\ ReadInit /\ LoginInit /\ MsgInit /\ NavInit /\ AnaInit
    /\ [PlatformNext]_<<part, accVars, teamVars, domVars, strVars, sessVars, viewVars, webVars,
                        readVars, loginVars, msgVars, navVars, anaVars>> =>
         /\ [AccNext]_accVars /\ [TeamNext]_teamVars /\ [DomNext]_domVars /\ [StrNext]_strVars
         /\ [SessNext]_sessVars /\ [ViewNext]_viewVars /\ [WebNext]_webVars /\ [ReadNext]_readVars
         /\ [LoginNext]_loginVars /\ [MsgNext]_msgVars /\ [NavNext]_navVars /\ [AnaNext]_anaVars
  <1>1. ASSUME PlatformInit
        PROVE  /\ AccInit /\ TeamInit /\ DomInit /\ StrInit /\ SessInit /\ ViewInit
               /\ WebInit /\ ReadInit /\ LoginInit /\ MsgInit /\ NavInit /\ AnaInit
    BY <1>1 DEF PlatformInit, AccStart, TeamStart, DomStart, ViewStart
  <1>2. ASSUME [PlatformNext]_<<part, accVars, teamVars, domVars, strVars, sessVars, viewVars,
                                webVars, readVars, loginVars, msgVars, navVars, anaVars>>
        PROVE  /\ [AccNext]_accVars /\ [TeamNext]_teamVars /\ [DomNext]_domVars
               /\ [StrNext]_strVars /\ [SessNext]_sessVars /\ [ViewNext]_viewVars
               /\ [WebNext]_webVars /\ [ReadNext]_readVars /\ [LoginNext]_loginVars
               /\ [MsgNext]_msgVars /\ [NavNext]_navVars /\ [AnaNext]_anaVars
    BY <1>2 DEF PlatformNext
  <1> QED
    BY <1>1, <1>2

(* A behaviour of the platform is one of each part.                        *)
THEOREM PlatformIsItsParts ==
    PlatformSpec => /\ AccSpec /\ TeamSpec /\ DomSpec /\ StrSpec /\ SessSpec /\ ViewSpec
                    /\ WebSpec /\ ReadSpec /\ LoginSpec /\ MsgSpec /\ NavSpec /\ AnaSpec
  BY PartsStartAndStep, PTL DEF PlatformSpec, AccSpec, TeamSpec, DomSpec, StrSpec, SessSpec,
     ViewSpec, WebSpec, ReadSpec, LoginSpec, MsgSpec, NavSpec, AnaSpec

(* What every page of the browser shows holds of them together.            *)
THEOREM ScreensStayTrue == PlatformSpec => []ScreensAreTrue
  <1>1. SelectionIsShown /\ ToldIsShown /\ ReadStateSettles /\ PageSettles /\ NavFollowsList
          /\ LabelsAreTrue => ScreensAreTrue
    BY DEF ScreensAreTrue
  <1> QED
    BY <1>1, PlatformIsItsParts, SelectionStaysShown, PagesShowWhatTheyTold, ReadFlagsSettle,
       ResendsAreShown, StepsLeadToNeighbours, PillsAreTrue, PTL

(* Whichever part is in motion, it stays well typed.                       *)
THEOREM PlatformStaysTyped == PlatformSpec => []PlatformTypeOK
  <1>1. AccTypeOK /\ TeamTypeOK /\ DomTypeOK /\ StrTypeOK /\ SessTypeOK /\ ViewTypeOK
          /\ WebTypeOK /\ ReadTypeOK /\ LoginTypeOK /\ MsgTypeOK /\ NavTypeOK /\ AnaTypeOK
            => PlatformTypeOK
    BY DEF PlatformTypeOK
  <1> QED
    BY <1>1, PlatformIsItsParts, AccountsStayTyped, TeamsStayTyped, SignersAreProven,
       StreamsAlwaysHold, TabsHearOfEachOther, SelectionStaysShown, PagesShowWhatTheyTold,
       ReadFlagsSettle, OvershootIsBounded, ResendsAreShown, StepsLeadToNeighbours,
       PillsAreTrue, PTL

(* The instance the runs check has every other property that they check of *)
(* it: of provider logins, keys, guesses, sessions and administrators, of  *)
(* memberships and roles, of signing domains, of event streams and tabs.   *)
THEOREM PlatformIsSound ==
    PlatformSpec => /\ [](SsoSignsProven /\ KeysEndWithPassword /\ GuessesBounded)
                    /\ DeadSessionsStayDead /\ LastAdminNeedsRace
                    /\ [](MembershipHolds /\ GrantWasHeld)
                    /\ [](SignerIsProven /\ StreamsHold /\ TabsAgree)
  BY PlatformIsItsParts, ProvidersSignProven, KeysGoWithPassword, OvershootIsBounded,
     EndedSessionsStayEnded, LastAdminStays, MembershipsAreSound, GrantsWereHeld,
     SignersAreProven, StreamsAlwaysHold, TabsHearOfEachOther, PTL
=============================================================================
