---------------------------- MODULE WriteProtect ----------------------------
(***************************************************************************)
(* The hardware write protect signal of board/cr50/wp.c, each function as  *)
(* the change that it makes.                                               *)
(*                                                                         *)
(* A record wp holds the bits of the long life scratch register that       *)
(* outlive a reset (asserted, forcing, fwmp and the saved CCD state), and  *)
(* the signal itself, pin.  flags are the CCD flags that ccd_get_flag()    *)
(* reports, battery what board_battery_is_present() says.                  *)
(***************************************************************************)

\* set_wp_state(): the firmware management parameters overrule everyone.
set_wp_state_blind(wp, asserted) ==
    [wp EXCEPT !.asserted = asserted, !.pin = asserted]

set_wp_state(wp, asserted) ==
    [wp EXCEPT !.asserted = asserted \/ wp.fwmp,
               !.pin = asserted \/ wp.fwmp]

force_write_protect(wp, force, en, battery) ==
    set_wp_state([wp EXCEPT !.forcing = force], IF force THEN en ELSE battery)

set_wp_follow_ccd_config(wp, flags, battery) ==
    IF wp.fwmp
      THEN force_write_protect(wp, TRUE, TRUE, battery)
    ELSE IF "WP_AT_BOOT" \in flags
      THEN force_write_protect(wp, TRUE, "WP_ENABLED" \in flags, battery)
      ELSE force_write_protect(wp, FALSE, TRUE, battery)

\* board_fwmp_check_wp_policy(); lock says that the firmware management
\* parameters do not allow CCD to be unlocked.
board_fwmp_check_wp_policy(wp, lock, battery) ==
    LET noted == [wp EXCEPT !.fwmp = lock]
    IN  IF lock /\ (~wp.pin \/ lock # wp.fwmp)
          THEN force_write_protect(noted, TRUE, TRUE, battery)
          ELSE noted

board_fwmp_update_policies(wp, lock, flags, battery) ==
    LET checked == board_fwmp_check_wp_policy(wp, lock, battery)
    IN  IF wp.fwmp /\ ~lock
          THEN set_wp_follow_ccd_config(checked, flags, battery)
          ELSE checked

\* init_wp_state(); resumed says that the chip wakes from deep sleep.
init_wp_state(wp, lock, flags, battery, resumed) ==
    LET checked == board_fwmp_check_wp_policy(wp, lock, battery)
    IN  IF checked.fwmp
          THEN set_wp_state(checked, TRUE)
        ELSE IF ~resumed
          THEN set_wp_follow_ccd_config(checked, flags, battery)
        ELSE set_wp_state(checked, IF checked.forcing THEN checked.asserted
                                   ELSE battery)
=============================================================================
