------------------------------- MODULE MCCarousel ------------------------------
(* Model-checking instance of Carousel.                                        *)
EXTENDS CarouselProps
================================================================================
