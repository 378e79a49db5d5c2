----------------------------- MODULE MCVeriyolu -----------------------------
(* Instances of Veriyolu for TLC. *)
EXTENDS Veriyolu

\* All of the UART and of the PWM controller's read/write registers.
UartPwm ==
    {e \in Erisim : /\ e.kole \in {"uart", "pwm"}
                    /\ e.adr = "cikti" => ~e.yaz /\ e.kole = "pwm"}

\* All of the SPI controller with flash commands that end, and of the others what does
\* not write at offset 0.
SpiDiger ==
    {e \in Erisim : /\ e.kole \in Koleler
                    /\ e.adr = "cikti" => ~e.yaz /\ e.kole = "pwm"
                    /\ e.yaz /\ e.adr = "sifir" => e.kole = "spi" /\ e.komut = "biter"}

MCProgramlar == {UartPwm, SpiDiger}

MCYalnizUartPwm == {UartPwm}

MCYalnizSpi == {{e \in SpiDiger : e.kole = "spi"}}

=============================================================================
